---- MODULE Spec2Model ----
(***************************************************************************)
(* A model of toy.py (MiniRDBMS): the HashIndex, the Table with its        *)
(* constraints, and the insert / update / delete operations.               *)
(*                                                                         *)
(* Values are records [t, v]: t is the Python runtime type and v an        *)
(* integer payload (for a string, the rank of the string in lexicographic  *)
(* order).  Row positions are 0-based as in the code; rows[i + 1] is the   *)
(* row at position i.                                                      *)
(*                                                                         *)
(* columns .. pk_counter are the fields of one Table object; data is the   *)
(* dict of a HashIndex object used on its own; tables is the catalog of a  *)
(* MiniDB, which maps a name to a reference into heap, the Table objects   *)
(* the catalog has constructed.                                            *)
(***************************************************************************)
EXTENDS Integers, Sequences, FiniteSets, TLC

VARIABLES columns, rows, pk_column, unique_columns, indexes,
          autoincrement_pk, pk_counter, data, tables, heap

vars == <<columns, rows, pk_column, unique_columns, indexes,
          autoincrement_pk, pk_counter, data, tables, heap>>

\* The fields of the Table object, and the objects beside it.
table_vars == <<columns, rows, pk_column, unique_columns, indexes,
                autoincrement_pk, pk_counter>>
other_objects == <<data, tables, heap>>

(*************************** bounds of the model ***************************)
MaxRows == 2
MaxCounter == 2

(******************************** DataValue ********************************)
NONE == [t |-> "none", v |-> 0]
IntV(n) == [t |-> "int", v |-> n]
BoolV(n) == [t |-> "bool", v |-> n]
StrV(n) == [t |-> "str", v |-> n]

NumTypes == {"int", "bool", "float"}

\* Python's == and hash on DataValue: 1 == True == 1.0, None == None,
\* strings equal strings; Key(v) is the equivalence class a dict keys on.
Key(v) == IF v.t \in NumTypes THEN <<"num", v.v>> ELSE <<v.t, v.v>>

PyEq(a, b) == Key(a) = Key(b)

\* Python's < and > are defined between numbers and between strings only.
Comparable(a, b) ==
    \/ a.t \in NumTypes /\ b.t \in NumTypes
    \/ a.t = "str" /\ b.t = "str"

\* isinstance(v, dtype): bool is a subclass of int.
IsInstance(v, dtype) ==
    IF dtype = "int" THEN v.t \in {"int", "bool"} ELSE v.t = dtype

(******************************** HashIndex ********************************)
EmptyIndex == [k \in {} |-> {}]

HashAdd(d, value, rowid) ==
    LET k == Key(value) IN
    [x \in DOMAIN d \cup {k} |->
        IF x = k
        THEN (IF k \in DOMAIN d THEN d[k] ELSE {}) \cup {rowid}
        ELSE d[x]]

HashRemove_KeepEmptyKey(d, value, rowid) ==
    LET k == Key(value) IN
    IF k \in DOMAIN d /\ d[k] # {}
    THEN [d EXCEPT ![k] = @ \ {rowid}]
    ELSE d

HashRemove(d, value, rowid) ==
    LET k == Key(value) IN
    IF k \in DOMAIN d /\ d[k] # {}
    THEN LET s == d[k] \ {rowid} IN
         IF s = {}
         THEN [x \in DOMAIN d \ {k} |-> d[x]]
         ELSE [d EXCEPT ![k] = s]
    ELSE d

HashLookup(d, value) ==
    IF Key(value) \in DOMAIN d THEN d[Key(value)] ELSE {}

\* The set a lookup hands out: its elements, and whether it is the set the
\* dict holds under a key or a new one.
NewSet(elems) == [live |-> FALSE, key |-> Key(NONE), elems |-> elems]
LiveSet(k, elems) == [live |-> TRUE, key |-> k, elems |-> elems]

LookupCall_Subscript(d, value) ==
    [data |-> IF Key(value) \in DOMAIN d THEN d
              ELSE [x \in DOMAIN d \cup {Key(value)} |->
                      IF x = Key(value) THEN {} ELSE d[x]],
     ret |-> NewSet(HashLookup(d, value))]

LookupCall_Alias(d, value) ==
    [data |-> d,
     ret |-> IF Key(value) \in DOMAIN d
             THEN LiveSet(Key(value), d[Key(value)])
             ELSE NewSet({})]

\* HashIndex.lookup: self.data.get(value, ()) reads the dict without
\* adding a key, and set(...) builds a new set.
LookupCall(d, value) ==
    [data |-> d, ret |-> NewSet(HashLookup(d, value))]

\* The caller's ret.add(rowid) or ret.discard(rowid): the dict afterwards.
ChangeLookedUp(call, op, rowid) ==
    IF ~call.ret.live \/ op = "none" THEN call.data
    ELSE [call.data EXCEPT ![call.ret.key] =
             IF op = "add" THEN @ \cup {rowid} ELSE @ \ {rowid}]

(********************************* schema **********************************)
column_order == <<"id", "email">>
ColNames == {column_order[i] : i \in 1..Len(column_order)}

\* The column lists a table is constructed with in this model.
Schemas ==
    { [id    |-> [dtype |-> "int", nullable |-> FALSE],
       email |-> [dtype |-> "str", nullable |-> TRUE]],
      [id    |-> [dtype |-> "int", nullable |-> TRUE],
       email |-> [dtype |-> "str", nullable |-> FALSE]] }

NoPk == "None"
NoExclude == -1


RowGet(row, col) == IF col \in DOMAIN row THEN row[col] ELSE NONE

(************************ predicates (where_fn) ****************************)
\* The filters build_predicate produces: r.get(col) == val, > val, < val,
\* and the conjunction of a list of filters.
\* Evaluating one on a row yields "T", "F" or "raise" (Python's TypeError
\* for an ordering comparison between None, numbers and strings).
NoPred == [op |-> "none", col |-> "", val |-> NONE]

RECURSIVE PredEval(_, _)
RECURSIVE AllHold(_, _, _)
PredEval(p, row) ==
    LET x == RowGet(row, p.col) IN
    CASE p.op = "eq" -> IF PyEq(x, p.val) THEN "T" ELSE "F"
      [] p.op = "gt" -> IF ~Comparable(x, p.val) THEN "raise"
                        ELSE IF x.v > p.val.v THEN "T" ELSE "F"
      [] p.op = "lt" -> IF ~Comparable(x, p.val) THEN "raise"
                        ELSE IF x.v < p.val.v THEN "T" ELSE "F"
      [] p.op = "and" -> AllHold(p.val, row, 1)

\* all(p(r) for p in filters): the filters in order, stopping at the first
\* that is false or raises.
AllHold(filters, row, k) ==
    IF k > Len(filters) THEN "T"
    ELSE IF PredEval(filters[k], row) # "T" THEN PredEval(filters[k], row)
    ELSE AllHold(filters, row, k + 1)

(********************************** Table **********************************)
Init ==
    /\ columns \in Schemas
    /\ rows = <<>>
    /\ pk_column = NoPk
    /\ unique_columns = {}
    /\ indexes = [c \in {} |-> EmptyIndex]
    /\ autoincrement_pk = FALSE
    /\ pk_counter = IntV(0)
    /\ data = EmptyIndex
    /\ tables = <<>>
    /\ heap = <<>>

EnsureIndex(idxs, colname) ==
    IF colname \in DOMAIN idxs THEN idxs
    ELSE [c \in DOMAIN idxs \cup {colname} |->
            IF c = colname THEN EmptyIndex ELSE idxs[c]]

DefinePrimaryKeyCall_Redefine(colname, autoincrement) ==
    IF colname \notin DOMAIN columns
    THEN [outcome |-> "ValueError", pk_column |-> pk_column,
          unique_columns |-> unique_columns, indexes |-> indexes,
          autoincrement_pk |-> autoincrement_pk]
    ELSE [outcome |-> "Ok", pk_column |-> colname,
          unique_columns |-> unique_columns \cup {colname},
          indexes |-> EnsureIndex(indexes, colname),
          autoincrement_pk |->
              (autoincrement_pk
                 \/ (autoincrement /\ columns[colname].dtype = "int"))]

\* Raises ValueError before any assignment when the column is not declared or
\* when pk_column is already set (column names are non-empty strings, for
\* which the truth test of line 80 is "is set").
DefinePrimaryKeyCall(colname, autoincrement) ==
    IF colname \notin DOMAIN columns \/ pk_column # NoPk
    THEN [outcome |-> "ValueError", pk_column |-> pk_column,
          unique_columns |-> unique_columns, indexes |-> indexes,
          autoincrement_pk |-> autoincrement_pk]
    ELSE [outcome |-> "Ok", pk_column |-> colname,
          unique_columns |-> unique_columns \cup {colname},
          indexes |-> EnsureIndex(indexes, colname),
          autoincrement_pk |->
              (autoincrement_pk
                 \/ (autoincrement /\ columns[colname].dtype = "int"))]

DefinePrimaryKey(colname, autoincrement) ==
    LET r == DefinePrimaryKeyCall(colname, autoincrement) IN
    /\ pk_column' = r.pk_column
    /\ unique_columns' = r.unique_columns
    /\ indexes' = r.indexes
    /\ autoincrement_pk' = r.autoincrement_pk
    /\ UNCHANGED <<columns, rows, pk_counter>>
    /\ UNCHANGED other_objects

AddUnique(colname) ==
    LET ok == colname \in DOMAIN columns IN
    /\ unique_columns' = IF ok THEN unique_columns \cup {colname} ELSE unique_columns
    /\ indexes' = IF ok THEN EnsureIndex(indexes, colname) ELSE indexes
    /\ UNCHANGED <<columns, rows, pk_column, autoincrement_pk, pk_counter>>
    /\ UNCHANGED other_objects

CheckUniqueViolation_NullsDistinct(idxs, col, value, exclude_rowid) ==
    /\ col \in unique_columns
    /\ value # NONE
    /\ (HashLookup(idxs[col], value) \ {exclude_rowid}) # {}

\* TRUE when _check_unique_violation raises.
CheckUniqueViolation(idxs, col, value, exclude_rowid) ==
    /\ col \in unique_columns
    /\ (HashLookup(idxs[col], value) \ {exclude_rowid}) # {}

RECURSIVE RebuildFrom(_, _, _)
RebuildFrom(rs, idxs, rowid) ==
    IF rowid >= Len(rs) THEN idxs
    ELSE RebuildFrom(rs,
                     [c \in DOMAIN idxs |-> HashAdd(idxs[c], RowGet(rs[rowid + 1], c), rowid)],
                     rowid + 1)

RebuildIndexes(rs, idxs) ==
    RebuildFrom(rs, [c \in DOMAIN idxs |-> EmptyIndex], 0)

(********************************* insert **********************************)
Incr_ByTwo(counter) == [t |-> "int", v |-> counter.v + 2]

\* _pk_counter += 1 keeps a float a float and turns a bool into an int.
Incr(counter) ==
    [t |-> IF counter.t = "float" THEN "float" ELSE "int", v |-> counter.v + 1]

PyMax_Supplied(a, b) == b

\* max(a, b) returns a unless b > a.
PyMax(a, b) == IF b.v > a.v THEN b ELSE a

\* Lines 120-128: the row built from values_dict and the autoincrement step.
AutoIncrement(values) ==
    LET row == [c \in ColNames |-> RowGet(values, c)] IN
    IF ~autoincrement_pk
    THEN [raised |-> FALSE, counter |-> pk_counter, row |-> row]
    ELSE IF RowGet(values, pk_column) = NONE
    THEN [raised |-> FALSE, counter |-> Incr(pk_counter),
          row |-> [row EXCEPT ![pk_column] = Incr(pk_counter)]]
    ELSE IF ~Comparable(pk_counter, values[pk_column])
    THEN [raised |-> TRUE, counter |-> pk_counter, row |-> row]
    ELSE [raised |-> FALSE, counter |-> PyMax(pk_counter, values[pk_column]),
          row |-> row]

TypeMismatch_BoolIsInt(v, dtype) == ~IsInstance(v, dtype)

\* Lines 137-140: TRUE when the strict type check raises.
TypeMismatch(v, dtype) ==
    \/ dtype = "int" /\ v.t = "bool"
    \/ ~IsInstance(v, dtype)

RECURSIVE Validate_NoNotNullCheck(_, _)
Validate_NoNotNullCheck(row, i) ==
    IF i > Len(column_order) THEN "Ok"
    ELSE IF row[column_order[i]] # NONE
            /\ TypeMismatch(row[column_order[i]], columns[column_order[i]].dtype)
    THEN "TypeMismatch"
    ELSE Validate_NoNotNullCheck(row, i + 1)

\* Lines 131-140: the outcome of the first column, in declared order, that
\* fails the NOT NULL or type check; "Ok" when none does.
RECURSIVE Validate(_, _)
Validate(row, i) ==
    IF i > Len(column_order) THEN "Ok"
    ELSE LET k == column_order[i]
             v == row[k]
             col == columns[k]
         IN IF v = NONE
            THEN (IF ~col.nullable THEN "NotNull" ELSE Validate(row, i + 1))
            ELSE IF TypeMismatch(v, col.dtype) THEN "TypeMismatch"
            ELSE Validate(row, i + 1)

UniqueViolation(idxs, row) ==
    \E col \in unique_columns :
        CheckUniqueViolation(idxs, col, RowGet(row, col), NoExclude)

InsertFailed(counter, outcome) ==
    [rows |-> rows, indexes |-> indexes, pk_counter |-> counter,
     outcome |-> outcome, ret |-> -1]

InsertCommit_Prepend(row, counter, outcome) ==
    [rows |-> <<row>> \o rows,
     indexes |-> [c \in DOMAIN indexes |->
                    HashAdd(indexes[c], RowGet(row, c), Len(rows))],
     pk_counter |-> counter, outcome |-> outcome,
     ret |-> IF outcome = "Ok" THEN Len(rows) ELSE -1]

InsertCommit(row, counter, outcome) ==
    [rows |-> Append(rows, row),
     indexes |-> [c \in DOMAIN indexes |->
                    HashAdd(indexes[c], RowGet(row, c), Len(rows))],
     pk_counter |-> counter, outcome |-> outcome,
     ret |-> IF outcome = "Ok" THEN Len(rows) ELSE -1]

InsertCall_CommitBeforeUnique(values) ==
    LET a == AutoIncrement(values) IN
    IF a.raised THEN InsertFailed(a.counter, "PyTypeError")
    ELSE IF Validate(a.row, 1) # "Ok"
    THEN InsertFailed(a.counter, Validate(a.row, 1))
    ELSE IF UniqueViolation(indexes, a.row)
    THEN InsertCommit(a.row, a.counter, "Unique")
    ELSE InsertCommit(a.row, a.counter, "Ok")

\* Table.insert: what it leaves behind and how it ends.
InsertCall(values) ==
    LET a == AutoIncrement(values) IN
    IF a.raised THEN InsertFailed(a.counter, "PyTypeError")
    ELSE IF Validate(a.row, 1) # "Ok"
    THEN InsertFailed(a.counter, Validate(a.row, 1))
    ELSE IF UniqueViolation(indexes, a.row)
    THEN InsertFailed(a.counter, "Unique")
    ELSE InsertCommit(a.row, a.counter, "Ok")

Insert(values) ==
    LET r == InsertCall(values) IN
    /\ r.outcome = "Ok" => Len(rows) < MaxRows
    /\ r.pk_counter.v <= MaxCounter
    /\ rows' = r.rows
    /\ indexes' = r.indexes
    /\ pk_counter' = r.pk_counter
    /\ UNCHANGED <<columns, pk_column, unique_columns, autoincrement_pk>>
    /\ UNCHANGED other_objects

(********************************* update **********************************)
Matches(where_fn, row) ==
    IF where_fn = NoPred THEN "T" ELSE PredEval(where_fn, row)

\* Lines 157-159: TRUE when the validation loop of one row raises.
AssignmentsViolate(idxs, row, rowid, assignments) ==
    \E j \in 1..Len(assignments) :
        /\ assignments[j].col \in unique_columns
        /\ ~PyEq(assignments[j].val, RowGet(row, assignments[j].col))
        /\ CheckUniqueViolation(idxs, assignments[j].col, assignments[j].val, rowid)

\* Lines 162-166: one assignment applied to the row and to its index.
ApplyOne(row, idxs, rowid, col, new_val) ==
    [row |-> [row EXCEPT ![col] = new_val],
     indexes |-> IF col \in DOMAIN idxs
                 THEN [idxs EXCEPT ![col] =
                          HashAdd(HashRemove(@, row[col], rowid), new_val, rowid)]
                 ELSE idxs]

\* The mutation loop reading the old value with row.get(col): an assignment
\* to a column the row does not have adds the key.
RECURSIVE ApplyAssignments_AddKey(_, _, _, _, _)
ApplyAssignments_AddKey(row, idxs, rowid, assignments, j) ==
    IF j > Len(assignments)
    THEN [row |-> row, indexes |-> idxs, outcome |-> "Ok"]
    ELSE IF assignments[j].col \notin DOMAIN row
    THEN ApplyAssignments_AddKey(
             [c \in DOMAIN row \cup {assignments[j].col} |->
                 IF c = assignments[j].col THEN assignments[j].val ELSE row[c]],
             idxs, rowid, assignments, j + 1)
    ELSE LET a == ApplyOne(row, idxs, rowid, assignments[j].col, assignments[j].val)
         IN ApplyAssignments_AddKey(a.row, a.indexes, rowid, assignments, j + 1)

\* Lines 161-166: the mutation loop of one row; row[col] raises KeyError on
\* a column the row does not have, after the earlier assignments are applied.
RECURSIVE ApplyAssignments(_, _, _, _, _)
ApplyAssignments(row, idxs, rowid, assignments, j) ==
    IF j > Len(assignments)
    THEN [row |-> row, indexes |-> idxs, outcome |-> "Ok"]
    ELSE IF assignments[j].col \notin DOMAIN row
    THEN [row |-> row, indexes |-> idxs, outcome |-> "KeyError"]
    ELSE LET a == ApplyOne(row, idxs, rowid, assignments[j].col, assignments[j].val)
         IN ApplyAssignments(a.row, a.indexes, rowid, assignments, j + 1)

RECURSIVE ApplyChecked(_, _, _, _, _)
ApplyChecked(row, idxs, rowid, assignments, j) ==
    IF j > Len(assignments)
    THEN [row |-> row, indexes |-> idxs, outcome |-> "Ok"]
    ELSE IF AssignmentsViolate(idxs, row, rowid, <<assignments[j]>>)
    THEN [row |-> row, indexes |-> idxs, outcome |-> "Unique"]
    ELSE IF assignments[j].col \notin DOMAIN row
    THEN [row |-> row, indexes |-> idxs, outcome |-> "KeyError"]
    ELSE LET a == ApplyOne(row, idxs, rowid, assignments[j].col, assignments[j].val)
         IN ApplyChecked(a.row, a.indexes, rowid, assignments, j + 1)

UpdateRow_CheckAndApplyEach(rs, idxs, rowid, assignments) ==
    LET a == ApplyChecked(rs[rowid + 1], idxs, rowid, assignments, 1) IN
    [rows |-> [rs EXCEPT ![rowid + 1] = a.row], indexes |-> a.indexes,
     outcome |-> a.outcome]

\* Lines 157-166: one matching row: validate every assignment, then mutate.
UpdateRow(rs, idxs, rowid, assignments) ==
    IF AssignmentsViolate(idxs, rs[rowid + 1], rowid, assignments)
    THEN [rows |-> rs, indexes |-> idxs, outcome |-> "Unique"]
    ELSE LET a == ApplyAssignments(rs[rowid + 1], idxs, rowid, assignments, 1) IN
         [rows |-> [rs EXCEPT ![rowid + 1] = a.row], indexes |-> a.indexes,
          outcome |-> a.outcome]

\* Lines 154-168: the loop over the rows in position order.
RECURSIVE UpdateFrom(_, _, _, _, _, _)
UpdateFrom(rs, idxs, rowid, count, assignments, where_fn) ==
    IF rowid >= Len(rs)
    THEN [rows |-> rs, indexes |-> idxs, outcome |-> "Ok", ret |-> count,
          failRow |-> -1]
    ELSE LET m == Matches(where_fn, rs[rowid + 1]) IN
         IF m = "raise"
         THEN [rows |-> rs, indexes |-> idxs, outcome |-> "PyTypeError",
               ret |-> -1, failRow |-> rowid]
         ELSE IF m = "F"
         THEN UpdateFrom(rs, idxs, rowid + 1, count, assignments, where_fn)
         ELSE LET u == UpdateRow(rs, idxs, rowid, assignments) IN
              IF u.outcome # "Ok"
              THEN [rows |-> u.rows, indexes |-> u.indexes,
                    outcome |-> u.outcome, ret |-> -1, failRow |-> rowid]
              ELSE UpdateFrom(u.rows, u.indexes, rowid + 1, count + 1,
                              assignments, where_fn)

UpdateCall(assignments, where_fn) ==
    UpdateFrom(rows, indexes, 0, 0, assignments, where_fn)

Update(assignments, where_fn) ==
    LET r == UpdateCall(assignments, where_fn) IN
    /\ rows' = r.rows
    /\ indexes' = r.indexes
    /\ UNCHANGED <<columns, pk_column, unique_columns, autoincrement_pk,
                   pk_counter>>
    /\ UNCHANGED other_objects

(********************************* delete **********************************)
DeleteCall_KeepCounter(where_fn) ==
    IF where_fn = NoPred
    THEN [rows |-> <<>>,
          indexes |-> [c \in DOMAIN indexes |-> EmptyIndex],
          pk_counter |-> pk_counter, outcome |-> "Ok", ret |-> Len(rows)]
    ELSE IF \E i \in 1..Len(rows) : Matches(where_fn, rows[i]) = "raise"
    THEN [rows |-> rows, indexes |-> indexes, pk_counter |-> pk_counter,
          outcome |-> "PyTypeError", ret |-> -1]
    ELSE LET keep(r) == Matches(where_fn, r) = "F"
             new_rows == SelectSeq(rows, keep)
         IN [rows |-> new_rows,
             indexes |-> RebuildIndexes(new_rows, indexes),
             pk_counter |-> pk_counter, outcome |-> "Ok",
             ret |-> Len(rows) - Len(new_rows)]

DeleteCall_ResetWhenEmptied(where_fn) ==
    IF where_fn = NoPred
    THEN [rows |-> <<>>,
          indexes |-> [c \in DOMAIN indexes |-> EmptyIndex],
          pk_counter |-> IntV(0), outcome |-> "Ok", ret |-> Len(rows)]
    ELSE IF \E i \in 1..Len(rows) : Matches(where_fn, rows[i]) = "raise"
    THEN [rows |-> rows, indexes |-> indexes, pk_counter |-> pk_counter,
          outcome |-> "PyTypeError", ret |-> -1]
    ELSE LET keep(r) == Matches(where_fn, r) = "F"
             new_rows == SelectSeq(rows, keep)
         IN [rows |-> new_rows,
             indexes |-> RebuildIndexes(new_rows, indexes),
             pk_counter |-> IF new_rows = <<>> THEN IntV(0) ELSE pk_counter,
             outcome |-> "Ok",
             ret |-> Len(rows) - Len(new_rows)]

\* Table.delete: without a predicate it clears the rows and every index and
\* resets the counter; with one it keeps the rows the predicate rejects and
\* rebuilds the indexes.  A predicate that raises leaves the table as it was.
DeleteCall(where_fn) ==
    IF where_fn = NoPred
    THEN [rows |-> <<>>,
          indexes |-> [c \in DOMAIN indexes |-> EmptyIndex],
          pk_counter |-> IntV(0), outcome |-> "Ok", ret |-> Len(rows)]
    ELSE IF \E i \in 1..Len(rows) : Matches(where_fn, rows[i]) = "raise"
    THEN [rows |-> rows, indexes |-> indexes, pk_counter |-> pk_counter,
          outcome |-> "PyTypeError", ret |-> -1]
    ELSE LET keep(r) == Matches(where_fn, r) = "F"
             new_rows == SelectSeq(rows, keep)
         IN [rows |-> new_rows,
             indexes |-> RebuildIndexes(new_rows, indexes),
             pk_counter |-> pk_counter, outcome |-> "Ok",
             ret |-> Len(rows) - Len(new_rows)]

Delete(where_fn) ==
    LET r == DeleteCall(where_fn) IN
    /\ rows' = r.rows
    /\ indexes' = r.indexes
    /\ pk_counter' = r.pk_counter
    /\ UNCHANGED <<columns, pk_column, unique_columns, autoincrement_pk>>
    /\ UNCHANGED other_objects

(********************************* select **********************************)
\* A row handed to the caller: its contents, and ref, the position of the
\* stored row it is the same object as, or Fresh for a new mapping.
Fresh == -1

NoProj == [given |-> FALSE, cols |-> <<>>]
Proj(cols) == [given |-> TRUE, cols |-> cols]

NoOrder == [given |-> FALSE, col |-> "", desc |-> FALSE]
OrderBy(col, desc) == [given |-> TRUE, col |-> col, desc |-> desc]

NoLimit == [given |-> FALSE, n |-> 0]
Limit(n) == [given |-> TRUE, n |-> n]

\* Line 196: the positions of the rows where_fn accepts, in position order;
\* the comprehension raises when where_fn raises on a row.
FilterRows(rs, where_fn) ==
    IF \E i \in 1..Len(rs) : Matches(where_fn, rs[i]) = "raise"
    THEN [outcome |-> "PyTypeError", pos |-> <<>>]
    ELSE LET accepts(p) == Matches(where_fn, rs[p + 1]) = "T" IN
         [outcome |-> "Ok",
          pos |-> SelectSeq([i \in 1..Len(rs) |-> i - 1], accepts)]

CopyRow_Alias(rs, pos) == [ref |-> pos, row |-> rs[pos + 1]]

\* Line 199: r.copy().
CopyRow(rs, pos) == [ref |-> Fresh, row |-> rs[pos + 1]]

\* Line 201: {c: r.get(c) for c in proj if c in r}.
ProjectRow(rs, pos, cols) ==
    [ref |-> Fresh,
     row |-> [c \in {cols[k] : k \in 1..Len(cols)} \cap DOMAIN rs[pos + 1] |->
                rs[pos + 1][c]]]

SortKey(item, col) == RowGet(item.row, col)

\* list.sort compares keys with <, which raises between null, numbers and
\* strings; a list of fewer than two rows is not compared at all.
Sortable(items, col) ==
    \/ Len(items) < 2
    \/ \A i, j \in 1..Len(items) :
          Comparable(SortKey(items[i], col), SortKey(items[j], col))

\* One step of the insertion: x goes after every row whose key is not
\* greater than its own.
InsertSorted(sorted, x, col) ==
    LET p == Cardinality({i \in 1..Len(sorted) :
                 ~(SortKey(x, col).v < SortKey(sorted[i], col).v)})
    IN SubSeq(sorted, 1, p) \o <<x>> \o SubSeq(sorted, p + 1, Len(sorted))

RECURSIVE StableSort(_, _, _)
StableSort(items, col, k) ==
    IF k = 0 THEN <<>>
    ELSE InsertSorted(StableSort(items, col, k - 1), items[k], col)

Reverse(items) == [i \in 1..Len(items) |-> items[Len(items) + 1 - i]]

SortRows_ReverseAscending(items, col, desc) ==
    IF desc
    THEN Reverse(StableSort(items, col, Len(items)))
    ELSE StableSort(items, col, Len(items))

\* Line 206: list.sort(key, reverse): with reverse the list is reversed,
\* sorted and reversed again, which keeps equal keys in their first order.
SortRows(items, col, desc) ==
    IF desc
    THEN Reverse(StableSort(Reverse(items), col, Len(items)))
    ELSE StableSort(items, col, Len(items))

\* Line 209: result[:limit]; a negative limit counts from the end.
Truncate(items, limit) ==
    IF ~limit.given THEN items
    ELSE IF limit.n >= 0
    THEN SubSeq(items, 1, IF limit.n < Len(items) THEN limit.n ELSE Len(items))
    ELSE SubSeq(items, 1, IF Len(items) + limit.n > 0 THEN Len(items) + limit.n ELSE 0)

\* Table.select on the rows rs: filter, project, order, limit.
SelectFrom(rs, args) ==
    LET f == FilterRows(rs, args.where_fn) IN
    IF f.outcome # "Ok"
    THEN [outcome |-> "PyTypeError", result |-> <<>>]
    ELSE LET result ==
                 [k \in 1..Len(f.pos) |->
                    IF ~args.proj.given \/ args.proj.cols = <<"*">>
                    THEN CopyRow(rs, f.pos[k])
                    ELSE ProjectRow(rs, f.pos[k], args.proj.cols)]
         IN IF ~args.order_by.given
            THEN [outcome |-> "Ok", result |-> Truncate(result, args.limit)]
            ELSE IF ~Sortable(result, args.order_by.col)
            THEN [outcome |-> "PyTypeError", result |-> <<>>]
            ELSE [outcome |-> "Ok",
                  result |-> Truncate(SortRows(result, args.order_by.col,
                                               args.order_by.desc),
                                      args.limit)]

SelectCall(args) == SelectFrom(rows, args)

\* select assigns nothing in the table.
Select(args) ==
    /\ SelectCall(args).outcome \in {"Ok", "PyTypeError"}
    /\ UNCHANGED vars

\* The caller's result[i][col] = val: the stored rows afterwards.
ChangeReturned(rs, result, i, col, val) ==
    IF result[i].ref = Fresh THEN rs
    ELSE [rs EXCEPT ![result[i].ref + 1] =
             [c \in DOMAIN @ \cup {col} |-> IF c = col THEN val ELSE @[c]]]

ChangeReturnedRow(args, i, col, val) ==
    /\ SelectCall(args).outcome = "Ok"
    /\ i \in 1..Len(SelectCall(args).result)
    /\ rows' = ChangeReturned(rows, SelectCall(args).result, i, col, val)
    /\ UNCHANGED <<columns, pk_column, unique_columns, indexes,
                   autoincrement_pk, pk_counter>>
    /\ UNCHANGED other_objects

(************************ the calls the model makes ************************)
InsertInputs ==
    [id : {NONE, IntV(1), IntV(2), BoolV(1), StrV(1)},
     email : {NONE, StrV(1), IntV(1)}]

Assign(c, x) == [col |-> c, val |-> x]

SingleAssignments ==
    {Assign("id", x) : x \in {NONE, IntV(1), IntV(2), StrV(1)}}
    \cup {Assign("email", x) : x \in {NONE, StrV(1)}}
    \cup {Assign("zz", IntV(1))}

\* A dict of assignments: one or two entries, distinct columns, in either order.
AssignmentLists ==
    {<<a>> : a \in SingleAssignments}
    \cup {p \in SingleAssignments \X SingleAssignments : p[1].col # p[2].col}

Preds ==
    {NoPred} \cup [op : {"eq", "lt"}, col : {"id"}, val : {IntV(2)}]

DeclaredNames == ColNames \cup {"zz"}

MaxLimit == 2

SelectArgs ==
    [proj : {NoProj, Proj(<<"*">>), Proj(<<"id">>), Proj(<<"email", "zz">>)},
     where_fn : Preds,
     order_by : {NoOrder} \cup {OrderBy(c, d) : c \in ColNames, d \in BOOLEAN},
     limit : {NoLimit} \cup {Limit(n) : n \in 0..MaxLimit}]

\* The value a caller writes into a row it was handed.
CallerValue == IntV(9)

Next ==
    \/ \E c \in DeclaredNames, a \in BOOLEAN : DefinePrimaryKey(c, a)
    \/ \E c \in DeclaredNames : AddUnique(c)
    \/ \E v \in InsertInputs : Insert(v)
    \/ \E a \in AssignmentLists, w \in Preds : Update(a, w)
    \/ \E w \in Preds : Delete(w)
    \/ \E a \in SelectArgs : Select(a)
    \/ \E a \in SelectArgs, i \in 1..MaxRows :
          a.order_by = NoOrder /\ a.limit = NoLimit
          /\ ChangeReturnedRow(a, i, "id", CallerValue)

Spec == Init /\ [][Next]_vars

\* The same calls, with the primary key and the unique constraints declared
\* only while the table holds no rows.
NextDeclaredFirst ==
    \/ \E c \in DeclaredNames, a \in BOOLEAN : rows = <<>> /\ DefinePrimaryKey(c, a)
    \/ \E c \in DeclaredNames : rows = <<>> /\ AddUnique(c)
    \/ \E v \in InsertInputs : Insert(v)
    \/ \E a \in AssignmentLists, w \in Preds : Update(a, w)
    \/ \E w \in Preds : Delete(w)
    \/ \E a \in SelectArgs : Select(a)
    \/ \E a \in SelectArgs, i \in 1..MaxRows :
          a.order_by = NoOrder /\ a.limit = NoLimit
          /\ ChangeReturnedRow(a, i, "id", CallerValue)

SpecDeclaredFirst == Init /\ [][NextDeclaredFirst]_vars

(************************* a HashIndex on its own **************************)
IndexValues == {NONE, IntV(1), BoolV(1), StrV(1)}
Rowids == 0..MaxRows

IndexAdd(value, rowid) ==
    /\ data' = HashAdd(data, value, rowid)
    /\ UNCHANGED <<table_vars, tables, heap>>

IndexRemove(value, rowid) ==
    /\ data' = HashRemove(data, value, rowid)
    /\ UNCHANGED <<table_vars, tables, heap>>

\* A lookup, after which the caller may add to or discard from the set it
\* was handed.
IndexLookup(value, op, rowid) ==
    /\ data' = ChangeLookedUp(LookupCall(data, value), op, rowid)
    /\ UNCHANGED <<table_vars, tables, heap>>

NextHashIndex ==
    \/ \E v \in IndexValues, r \in Rowids : IndexAdd(v, r)
    \/ \E v \in IndexValues, r \in Rowids : IndexRemove(v, r)
    \/ \E v \in IndexValues, op \in {"none", "add", "discard"}, r \in Rowids :
          IndexLookup(v, op, r)

SpecHashIndex == Init /\ [][NextHashIndex]_vars

(********************************** MiniDB *********************************)
TableNames == {"users", "orders"}

\* A reference to a Table object is its place in heap; NoRef is no object.
NoRef == 0

\* Table.__init__: the object a constructor call builds.
NewTable(name, cols) ==
    [name |-> name, columns |-> cols, rows |-> <<>>, pk_column |-> NoPk,
     unique_columns |-> {}, indexes |-> [c \in {} |-> EmptyIndex],
     autoincrement_pk |-> FALSE, pk_counter |-> IntV(0)]

\* self.tables[name] = Table(name, columns): a new object, bound to name.
Register(name, cols) ==
    [outcome |-> "Ok",
     tables |-> [n \in DOMAIN tables \cup {name} |->
                   IF n = name THEN Len(heap) + 1 ELSE tables[n]],
     heap |-> Append(heap, NewTable(name, cols)),
     ref |-> Len(heap) + 1]

CreateTableCall_Replace(name, cols) == Register(name, cols)

\* MiniDB.create_table.
CreateTableCall(name, cols) ==
    IF name \in DOMAIN tables
    THEN [outcome |-> "Exists", tables |-> tables, heap |-> heap, ref |-> NoRef]
    ELSE Register(name, cols)

CreateTable(name, cols) ==
    /\ tables' = CreateTableCall(name, cols).tables
    /\ heap' = CreateTableCall(name, cols).heap
    /\ UNCHANGED <<table_vars, data>>

\* MiniDB.get_table: the object the catalog holds, not a copy of it.
GetTableCall(name) ==
    IF name \notin DOMAIN tables
    THEN [outcome |-> "NotFound", ref |-> NoRef]
    ELSE [outcome |-> "Ok", ref |-> tables[name]]

\* Table.add_unique on the object t.
AddUniqueTo(t, colname) ==
    IF colname \notin DOMAIN t.columns THEN t
    ELSE [t EXCEPT !.unique_columns = @ \cup {colname},
                   !.indexes = EnsureIndex(@, colname)]

\* db.get_table(name).add_unique(colname): a call on the object handed out.
GetTableAddUnique(name, colname) ==
    LET g == GetTableCall(name) IN
    /\ heap' = IF g.outcome = "Ok"
               THEN [heap EXCEPT ![g.ref] = AddUniqueTo(@, colname)]
               ELSE heap
    /\ UNCHANGED <<table_vars, data, tables>>

NextMiniDB ==
    \/ \E n \in TableNames, cols \in Schemas : CreateTable(n, cols)
    \/ \E n \in TableNames, c \in DeclaredNames : GetTableAddUnique(n, c)

SpecMiniDB == Init /\ [][NextMiniDB]_vars

(******************* Table methods on a catalog's object *******************)
\* The methods of Table applied to t, an object held by the catalog: the
\* same code as above, reading t's fields in place of one table's variables.

\* Lines 120-128 on t.
AutoIncrementIn(t, values) ==
    LET row == [c \in ColNames |-> RowGet(values, c)] IN
    IF ~t.autoincrement_pk
    THEN [raised |-> FALSE, counter |-> t.pk_counter, row |-> row]
    ELSE IF RowGet(values, t.pk_column) = NONE
    THEN [raised |-> FALSE, counter |-> Incr(t.pk_counter),
          row |-> [row EXCEPT ![t.pk_column] = Incr(t.pk_counter)]]
    ELSE IF ~Comparable(t.pk_counter, values[t.pk_column])
    THEN [raised |-> TRUE, counter |-> t.pk_counter, row |-> row]
    ELSE [raised |-> FALSE,
          counter |-> PyMax(t.pk_counter, values[t.pk_column]), row |-> row]

\* Lines 131-140 on the columns cols.
RECURSIVE ValidateIn(_, _, _)
ValidateIn(cols, row, i) ==
    IF i > Len(column_order) THEN "Ok"
    ELSE LET k == column_order[i]
             v == row[k]
         IN IF v = NONE
            THEN (IF ~cols[k].nullable THEN "NotNull"
                  ELSE ValidateIn(cols, row, i + 1))
            ELSE IF TypeMismatch(v, cols[k].dtype) THEN "TypeMismatch"
            ELSE ValidateIn(cols, row, i + 1)

\* Lines 100-108 on t: TRUE when _check_unique_violation raises.
CheckUniqueViolationIn(t, idxs, col, value, exclude_rowid) ==
    /\ col \in t.unique_columns
    /\ (HashLookup(idxs[col], value) \ {exclude_rowid}) # {}

\* Table.insert on t: the object afterwards and how the call ends.
InsertInto(t, values) ==
    LET a == AutoIncrementIn(t, values)
        failed(outcome) ==
            [table |-> [t EXCEPT !.pk_counter = a.counter],
             outcome |-> outcome, ret |-> -1]
    IN IF a.raised THEN failed("PyTypeError")
       ELSE IF ValidateIn(t.columns, a.row, 1) # "Ok"
       THEN failed(ValidateIn(t.columns, a.row, 1))
       ELSE IF \E col \in t.unique_columns :
                  CheckUniqueViolationIn(t, t.indexes, col, RowGet(a.row, col),
                                         NoExclude)
       THEN failed("Unique")
       ELSE [table |->
                [t EXCEPT !.rows = Append(@, a.row),
                          !.indexes =
                              [c \in DOMAIN @ |->
                                 HashAdd(@[c], RowGet(a.row, c), Len(t.rows))],
                          !.pk_counter = a.counter],
             outcome |-> "Ok", ret |-> Len(t.rows)]

\* Lines 157-166 on one matching row of t.
UpdateRowIn(t, rs, idxs, rowid, assignments) ==
    IF \E j \in 1..Len(assignments) :
          /\ assignments[j].col \in t.unique_columns
          /\ ~PyEq(assignments[j].val, RowGet(rs[rowid + 1], assignments[j].col))
          /\ CheckUniqueViolationIn(t, idxs, assignments[j].col,
                                    assignments[j].val, rowid)
    THEN [rows |-> rs, indexes |-> idxs, outcome |-> "Unique"]
    ELSE LET a == ApplyAssignments(rs[rowid + 1], idxs, rowid, assignments, 1) IN
         [rows |-> [rs EXCEPT ![rowid + 1] = a.row], indexes |-> a.indexes,
          outcome |-> a.outcome]

\* Lines 154-168 on t.
RECURSIVE UpdateFromIn(_, _, _, _, _, _, _)
UpdateFromIn(t, rs, idxs, rowid, count, assignments, where_fn) ==
    IF rowid >= Len(rs)
    THEN [rows |-> rs, indexes |-> idxs, outcome |-> "Ok", ret |-> count]
    ELSE LET m == Matches(where_fn, rs[rowid + 1]) IN
         IF m = "raise"
         THEN [rows |-> rs, indexes |-> idxs, outcome |-> "PyTypeError",
               ret |-> -1]
         ELSE IF m = "F"
         THEN UpdateFromIn(t, rs, idxs, rowid + 1, count, assignments, where_fn)
         ELSE LET u == UpdateRowIn(t, rs, idxs, rowid, assignments) IN
              IF u.outcome # "Ok"
              THEN [rows |-> u.rows, indexes |-> u.indexes,
                    outcome |-> u.outcome, ret |-> -1]
              ELSE UpdateFromIn(t, u.rows, u.indexes, rowid + 1, count + 1,
                                assignments, where_fn)

\* Table.update on t.
UpdateIn(t, assignments, where_fn) ==
    LET r == UpdateFromIn(t, t.rows, t.indexes, 0, 0, assignments, where_fn) IN
    [table |-> [t EXCEPT !.rows = r.rows, !.indexes = r.indexes],
     outcome |-> r.outcome, ret |-> r.ret]

\* Table.delete on t.
DeleteFrom(t, where_fn) ==
    IF where_fn = NoPred
    THEN [table |-> [t EXCEPT !.rows = <<>>,
                              !.indexes = [c \in DOMAIN @ |-> EmptyIndex],
                              !.pk_counter = IntV(0)],
          outcome |-> "Ok", ret |-> Len(t.rows)]
    ELSE IF \E i \in 1..Len(t.rows) : Matches(where_fn, t.rows[i]) = "raise"
    THEN [table |-> t, outcome |-> "PyTypeError", ret |-> -1]
    ELSE LET keep(r) == Matches(where_fn, r) = "F"
             new_rows == SelectSeq(t.rows, keep)
         IN [table |-> [t EXCEPT !.rows = new_rows,
                                 !.indexes = RebuildIndexes(new_rows, @)],
             outcome |-> "Ok", ret |-> Len(t.rows) - Len(new_rows)]

(************************** parsed SQL expressions *************************)
\* A node of the tree parse_one returns: its class (kind), the table
\* qualifier of a column, `this` (a column's name or a literal's text),
\* whether a literal is a quoted string, and the operand nodes.
Node(kind, table, this, is_string, args) ==
    [kind |-> kind, table |-> table, this |-> this, is_string |-> is_string,
     args |-> args]

ColumnNode(table, name) == Node("Column", table, name, FALSE, <<>>)
NumberNode(text) == Node("Literal", "", text, FALSE, <<>>)
StringNode(text) == Node("Literal", "", text, TRUE, <<>>)
NullNode == Node("Null", "", "", FALSE, <<>>)
Binary(kind, l, r) == Node(kind, "", "", FALSE, <<l, r>>)
NoWhere == Node("None", "", "", FALSE, <<>>)

\* expr.name: the name of a column, the text of a literal, "" otherwise.
NodeName(e) == IF e.kind \in {"Column", "Literal"} THEN e.this ELSE ""

\* The literal texts of the model and the values int(), float() and the
\* string itself give for them.
IntTexts == {"1", "2"}
FloatV(n) == [t |-> "float", v |-> n]

NumberOf(text) == CASE text = "1" -> 1 [] text = "2" -> 2 [] text = "1.0" -> 1

StringOf(text) == CASE text = "a" -> StrV(1) [] OTHER -> StrV(2)

\* parse_literal: int for an integer literal, float for another number, the
\* text for a string; None for every node that is not a literal.
ParseLiteral(e) ==
    IF e.kind # "Literal" THEN NONE
    ELSE IF ~e.is_string /\ e.this \in IntTexts THEN IntV(NumberOf(e.this))
    ELSE IF ~e.is_string THEN FloatV(NumberOf(e.this))
    ELSE StringOf(e.this)

\* What build_predicate hands back: a callable (a filter) or a tuple.
Callable(p) == [outcome |-> "Ok", tuple |-> FALSE, value |-> p]
TupleOf(x) == [outcome |-> "Ok", tuple |-> TRUE, value |-> x]
NotSupported ==
    [outcome |-> "NotImplementedError", tuple |-> FALSE, value |-> NoPred]

\* The filter that applies filters[0] alone.
AllOf_First(filters) == filters[1]

\* lambda r: all(p(r) for p in filters).
AllOf(filters) == [op |-> "and", col |-> "&", val |-> filters]

\* Line 265-266: the tuples, and the callables, among p1 and p2, in order.
Among(ps, tuple) ==
    LET is(p) == p.tuple = tuple IN
    [k \in 1..Len(SelectSeq(ps, is)) |-> SelectSeq(ps, is)[k].value]

\* Lines 237-245: the join descriptor of an equality between two columns.
JoinDescriptor(l, r) ==
    TupleOf(<<"JOIN", l.table, NodeName(l), r.table, NodeName(r)>>)

\* build_predicate(expr, table_map); table_map is the set of its keys, {}
\* when the caller passes none.
RECURSIVE BuildPredicate(_, _)
BuildPredicate(expr, table_map) ==
    LET l == expr.args[1]
        r == expr.args[2]
    IN
    IF expr.kind = "EQ"
    THEN IF /\ l.kind = "Column"
            /\ r.kind = "Column"
            /\ table_map # {}
            /\ l.table # r.table
            /\ l.table \in table_map
            /\ r.table \in table_map
         THEN JoinDescriptor(l, r)
         ELSE IF ParseLiteral(r) # NONE
         THEN Callable([op |-> "eq", col |-> NodeName(l), val |-> ParseLiteral(r)])
         ELSE NotSupported
    ELSE IF expr.kind \in {"GT", "LT"}
    THEN IF ParseLiteral(r) # NONE
         THEN Callable([op |-> IF expr.kind = "GT" THEN "gt" ELSE "lt",
                        col |-> NodeName(l), val |-> ParseLiteral(r)])
         ELSE NotSupported
    ELSE IF expr.kind = "And"
    THEN LET p1 == BuildPredicate(l, table_map) IN
         IF p1.outcome # "Ok" THEN p1
         ELSE LET p2 == BuildPredicate(r, table_map) IN
              IF p2.outcome # "Ok" THEN p2
              ELSE LET joins == Among(<<p1, p2>>, TRUE)
                       filters == Among(<<p1, p2>>, FALSE)
                   IN IF Len(joins) > 0
                      THEN TupleOf(<<joins[1], filters>>)
                      ELSE Callable(AllOf(filters))
    ELSE NotSupported

(***************************** SQL statements ******************************)
\* The statement tree execute works on: its class (kind), the names of its
\* tables in the order find_all yields them, the WHERE node, whether the
\* select list is a star, the selected columns, the ORDER BY item (column
\* and the desc argument, "None" when the statement has none), the LIMIT
\* node, the
\* column list and the value rows of an INSERT, the SET items of an UPDATE.
NoOrderItem == [given |-> FALSE, col |-> "", desc |-> "None"]
OrderItem(col, desc) == [given |-> TRUE, col |-> col, desc |-> desc]

Statement(kind, tbls, where, star, cols, order, limit, columns_, values, set) ==
    [kind |-> kind, tables |-> tbls, where |-> where, star |-> star,
     cols |-> cols, order |-> order, limit |-> limit, columns |-> columns_,
     values |-> values, set |-> set]

SelectStmt(tbls, where, star, cols, order, limit) ==
    Statement("Select", tbls, where, star, cols, order, limit, <<>>, <<>>, <<>>)
InsertStmt(name, columns_, values) ==
    Statement("Insert", <<name>>, NoWhere, FALSE, <<>>, NoOrderItem, NoWhere,
              columns_, values, <<>>)
UpdateStmt(name, set, where) ==
    Statement("Update", <<name>>, where, FALSE, <<>>, NoOrderItem, NoWhere,
              <<>>, <<>>, set)
DeleteStmt(name, where) ==
    Statement("Delete", <<name>>, where, FALSE, <<>>, NoOrderItem, NoWhere,
              <<>>, <<>>, <<>>)

\* How execute ends: a list of rows, a status message, or an exception.
Returned(result, h) ==
    [outcome |-> "Rows", result |-> result, message |-> <<>>, heap |-> h]
Message_Raise(text, n, h) ==
    [outcome |-> "ValueError", result |-> <<>>, message |-> <<>>, heap |-> h]

Message(text, n, h) ==
    [outcome |-> "Message", result |-> <<>>, message |-> <<text, n>>, heap |-> h]
Raised(exception, h) ==
    [outcome |-> exception, result |-> <<>>, message |-> <<>>, heap |-> h]

OnlySingleOrJoin == "Only single table or simple comma-join supported"

Names(tbls) == {tbls[k] : k \in 1..Len(tbls)}

\* Lines 293-303: join_info and filter_fn taken from the WHERE clause.
\* join_info is the tuple execute keeps; NoPred stands for filter_fn = None.
WhereParts(where, table_map) ==
    LET pred == BuildPredicate(where, table_map) IN
    IF where = NoWhere
    THEN [outcome |-> "Ok", join_info |-> <<>>, filter_fn |-> NoPred]
    ELSE IF pred.outcome # "Ok"
    THEN [outcome |-> pred.outcome, join_info |-> <<>>, filter_fn |-> NoPred]
    ELSE IF pred.tuple /\ Len(pred.value) = 2
    THEN [outcome |-> "Ok", join_info |-> pred.value[1],
          filter_fn |-> IF Len(pred.value[2]) > 0 THEN pred.value[2][1]
                        ELSE NoPred]
    ELSE IF pred.tuple /\ Len(pred.value) = 5
    THEN [outcome |-> "Ok", join_info |-> SubSeq(pred.value, 2, 5),
          filter_fn |-> NoPred]
    ELSE IF pred.tuple
    THEN [outcome |-> "Ok", join_info |-> <<>>, filter_fn |-> NoPred]
    ELSE [outcome |-> "Ok", join_info |-> <<>>, filter_fn |-> pred.value]

\* Lines 328-329: the combined row, every column of r1 under (t1, column)
\* and every column of r2 under (t2, column); the pair stands for the key
\* "table.column".
Combined(t1, r1, t2, r2) ==
    [ref |-> Fresh,
     row |-> [k \in ({t1} \X DOMAIN r1) \cup ({t2} \X DOMAIN r2) |->
                IF k[1] = t2 THEN r2[k[2]] ELSE r1[k[2]]]]

InnerLoop_FirstMatch(t1, r1, c1, t2, rs2, c2) ==
    LET equal(j) == PyEq(RowGet(rs2[j], c2), RowGet(r1, c1))
        js == SelectSeq([j \in 1..Len(rs2) |-> j], equal)
    IN [k \in 1..(IF Len(js) > 0 THEN 1 ELSE 0) |->
          Combined(t1, r1, t2, rs2[js[k]])]

\* Lines 326-330: the combined rows of r1 with the rows of the right table,
\* in position order.
InnerLoop(t1, r1, c1, t2, rs2, c2) ==
    LET equal(j) == PyEq(RowGet(rs2[j], c2), RowGet(r1, c1))
        js == SelectSeq([j \in 1..Len(rs2) |-> j], equal)
    IN [k \in 1..Len(js) |-> Combined(t1, r1, t2, rs2[js[k]])]

\* Lines 323-330: the loop over the rows of the left table from position i.
RECURSIVE NestedLoop(_, _, _, _, _, _, _, _)
NestedLoop(t1, rs1, c1, t2, rs2, c2, filter_fn, i) ==
    IF i > Len(rs1) THEN [outcome |-> "Ok", result |-> <<>>]
    ELSE LET m == Matches(filter_fn, rs1[i]) IN
         IF m = "raise" THEN [outcome |-> "PyTypeError", result |-> <<>>]
         ELSE LET rest == NestedLoop(t1, rs1, c1, t2, rs2, c2, filter_fn, i + 1)
              IN IF rest.outcome # "Ok" THEN rest
                 ELSE [outcome |-> "Ok",
                       result |->
                          (IF m = "T"
                           THEN InnerLoop(t1, rs1[i], c1, t2, rs2, c2)
                           ELSE <<>>) \o rest.result]

\* Lines 286-333: a SELECT statement.
ExecuteSelect(stmt) ==
    LET table_map == Names(stmt.tables)
        w == WhereParts(stmt.where, table_map)
        proj == IF stmt.star THEN NoProj ELSE Proj(stmt.cols)
        limit == IF stmt.limit = NoWhere THEN NoLimit
                 ELSE Limit(NumberOf(stmt.limit.this))
        order_by == IF stmt.order.given
                    THEN OrderBy(stmt.order.col, stmt.order.desc # "None")
                    ELSE NoOrder
    IN
    IF ~(table_map \subseteq DOMAIN tables) THEN Raised("NotFound", heap)
    ELSE IF w.outcome # "Ok" THEN Raised(w.outcome, heap)
    ELSE IF Len(stmt.tables) = 1
    THEN LET s == SelectFrom(heap[tables[stmt.tables[1]]].rows,
                             [proj |-> proj, where_fn |-> w.filter_fn,
                              order_by |-> order_by, limit |-> limit])
         IN IF s.outcome = "Ok" THEN Returned(s.result, heap)
            ELSE Raised(s.outcome, heap)
    ELSE IF Len(stmt.tables) = 2 /\ Len(w.join_info) > 0
    THEN IF Len(w.join_info) # 4 THEN Raised("ValueError", heap)
         ELSE LET j == w.join_info
                  n == NestedLoop(j[1], heap[tables[j[1]]].rows, j[2],
                                  j[3], heap[tables[j[3]]].rows, j[4],
                                  w.filter_fn, 1)
              IN IF n.outcome = "Ok" THEN Returned(n.result, heap)
                 ELSE Raised(n.outcome, heap)
    ELSE Message(OnlySingleOrJoin, 0, heap)

\* Line 339: {c: parse_literal(v) for c, v in zip(columns, row_values)}.
ZipRow(columns_, row_values) ==
    LET n == IF Len(columns_) < Len(row_values) THEN Len(columns_)
             ELSE Len(row_values)
        last(c) == CHOOSE k \in 1..n :
                      columns_[k] = c /\ \A m \in (k + 1)..n : columns_[m] # c
    IN [c \in {columns_[k] : k \in 1..n} |-> ParseLiteral(row_values[last(c)])]

\* Lines 338-340: the value rows inserted in order until one raises.
RECURSIVE InsertRows(_, _, _, _)
InsertRows(t, columns_, values, k) ==
    IF k > Len(values) THEN [table |-> t, outcome |-> "Ok"]
    ELSE LET r == InsertInto(t, ZipRow(columns_, values[k])) IN
         IF r.outcome # "Ok" THEN [table |-> r.table, outcome |-> r.outcome]
         ELSE InsertRows(r.table, columns_, values, k + 1)

\* Lines 335-341: an INSERT statement.
ExecuteInsert(stmt) ==
    LET g == GetTableCall(stmt.tables[1]) IN
    IF g.outcome # "Ok" THEN Raised("NotFound", heap)
    ELSE LET columns_ == IF Len(stmt.columns) > 0 THEN stmt.columns
                         ELSE column_order
             r == InsertRows(heap[g.ref], columns_, stmt.values, 1)
             h == [heap EXCEPT ![g.ref] = r.table]
         IN IF r.outcome # "Ok" THEN Raised(r.outcome, h)
            ELSE Message("Inserted", Len(stmt.values), h)

\* Line 345: {e.left.name: parse_literal(e.right) for e in ast.expressions},
\* in the order of the first mention of each column.
RECURSIVE SetItems(_, _)
SetItems(set, k) ==
    IF k = 0 THEN <<>>
    ELSE LET before == SetItems(set, k - 1)
             name == NodeName(set[k].args[1])
             val == ParseLiteral(set[k].args[2])
         IN IF \E m \in 1..Len(before) : before[m].col = name
            THEN [m \in 1..Len(before) |->
                    IF before[m].col = name THEN Assign(name, val) ELSE before[m]]
            ELSE Append(before, Assign(name, val))

\* Lines 346 and 351: the filter of an UPDATE or DELETE, built with no
\* table_map.
WhereFilter(where) ==
    IF where = NoWhere THEN [outcome |-> "Ok", where_fn |-> NoPred]
    ELSE [outcome |-> BuildPredicate(where, {}).outcome,
          where_fn |-> BuildPredicate(where, {}).value]

\* Lines 343-347: an UPDATE statement.
ExecuteUpdate(stmt) ==
    LET g == GetTableCall(stmt.tables[1])
        w == WhereFilter(stmt.where)
    IN
    IF g.outcome # "Ok" THEN Raised("NotFound", heap)
    ELSE IF w.outcome # "Ok" THEN Raised(w.outcome, heap)
    ELSE LET r == UpdateIn(heap[g.ref], SetItems(stmt.set, Len(stmt.set)),
                           w.where_fn)
             h == [heap EXCEPT ![g.ref] = r.table]
         IN IF r.outcome # "Ok" THEN Raised(r.outcome, h)
            ELSE Message("Updated", r.ret, h)

\* Lines 349-352: a DELETE statement.
ExecuteDelete(stmt) ==
    LET g == GetTableCall(stmt.tables[1])
        w == WhereFilter(stmt.where)
    IN
    IF g.outcome # "Ok" THEN Raised("NotFound", heap)
    ELSE IF w.outcome # "Ok" THEN Raised(w.outcome, heap)
    ELSE LET r == DeleteFrom(heap[g.ref], w.where_fn)
             h == [heap EXCEPT ![g.ref] = r.table]
         IN IF r.outcome # "Ok" THEN Raised(r.outcome, h)
            ELSE Message("Deleted", r.ret, h)

ExecuteCall_EmptyForMissing(stmt) ==
    IF ~(Names(stmt.tables) \subseteq DOMAIN tables) THEN Returned(<<>>, heap)
    ELSE CASE stmt.kind = "Select" -> ExecuteSelect(stmt)
           [] stmt.kind = "Insert" -> ExecuteInsert(stmt)
           [] stmt.kind = "Update" -> ExecuteUpdate(stmt)
           [] stmt.kind = "Delete" -> ExecuteDelete(stmt)

\* execute, from the parsed statement on.
ExecuteCall(stmt) ==
    CASE stmt.kind = "Select" -> ExecuteSelect(stmt)
      [] stmt.kind = "Insert" -> ExecuteInsert(stmt)
      [] stmt.kind = "Update" -> ExecuteUpdate(stmt)
      [] stmt.kind = "Delete" -> ExecuteDelete(stmt)
      [] OTHER -> Message("Unsupported statement type", 0, heap)

(************************ the statements of the model **********************)
StatementTables == TableNames \cup {"ghost"}

IdIs1 == Binary("EQ", ColumnNode("", "id"), NumberNode("1"))
IdBelow2 == Binary("LT", ColumnNode("", "id"), NumberNode("2"))
OrdersIdAbove1 == Binary("GT", ColumnNode("orders", "id"), NumberNode("1"))
EmailIsA == Binary("EQ", ColumnNode("", "email"), StringNode("a"))
IdIsFloat1 == Binary("EQ", ColumnNode("users", "id"), NumberNode("1.0"))

Filters == {IdIs1, IdBelow2, OrdersIdAbove1, EmailIsA, IdIsFloat1}

UsersIdIsOrdersId ==
    Binary("EQ", ColumnNode("users", "id"), ColumnNode("orders", "id"))
OrdersIdIsUsersId ==
    Binary("EQ", ColumnNode("orders", "id"), ColumnNode("users", "id"))
EmailsEqual ==
    Binary("EQ", ColumnNode("users", "email"), ColumnNode("orders", "email"))

Joins == {UsersIdIsOrdersId, OrdersIdIsUsersId, EmailsEqual}

\* Expressions outside the shapes build_predicate is written for.
Others ==
    { Binary("Or", IdIs1, EmailIsA),
      Binary("EQ", ColumnNode("", "id"), ColumnNode("", "email")),
      Binary("EQ", ColumnNode("users", "id"), ColumnNode("users", "email")),
      Binary("EQ", ColumnNode("ghost", "id"), ColumnNode("users", "id")),
      Binary("EQ", ColumnNode("", "id"), NullNode),
      Binary("GT", ColumnNode("", "id"), ColumnNode("", "email")),
      Binary("EQ", NumberNode("1"), NumberNode("1")),
      Binary("LT", NullNode, NumberNode("2")),
      Binary("EQ", NumberNode("1"), ColumnNode("", "id")) }

Conjunctions ==
    { Binary("And", UsersIdIsOrdersId, IdIs1),
      Binary("And", EmailIsA, OrdersIdIsUsersId),
      Binary("And", UsersIdIsOrdersId, OrdersIdAbove1),
      Binary("And", IdIs1, EmailIsA),
      Binary("And", OrdersIdAbove1, IdIs1),
      Binary("And", UsersIdIsOrdersId, EmailsEqual),
      Binary("And", IdIs1, Binary("Or", IdIs1, EmailIsA)),
      Binary("And", Binary("And", UsersIdIsOrdersId, IdIs1), EmailIsA) }

Expressions == Filters \cup Joins \cup Others \cup Conjunctions

FromLists ==
    { <<>>, <<"users">>, <<"orders">>, <<"ghost">>, <<"users", "orders">>,
      <<"orders", "users">>, <<"users", "ghost">>, <<"users", "users">>,
      <<"users", "orders", "users">> }

SelectStatements ==
    {SelectStmt(f, w, TRUE, <<>>, NoOrderItem, NoWhere) :
        f \in FromLists, w \in {NoWhere} \cup Expressions}
    \cup {SelectStmt(f, w, FALSE, <<"id">>, OrderItem("id", d), NumberNode("1")) :
        f \in {<<"users">>, <<"users", "orders">>},
        w \in {NoWhere, UsersIdIsOrdersId}, d \in {"None", "True"}}

ValueRows ==
    { <<NumberNode("1"), StringNode("a")>>, <<NumberNode("2"), StringNode("a")>>,
      <<NullNode, StringNode("a")>>, <<StringNode("a"), StringNode("a")>> }

InsertStatements ==
    {InsertStmt(n, <<>>, <<v>>) : n \in StatementTables, v \in ValueRows}
    \cup {InsertStmt(n, <<"email">>, <<<<StringNode("a")>>>>) : n \in StatementTables}
    \cup {InsertStmt(n, <<>>, <<<<NumberNode("1"), StringNode("a")>>,
                               <<NullNode, StringNode("a")>>>>) :
             n \in StatementTables}

SetId2 == Binary("EQ", ColumnNode("", "id"), NumberNode("2"))
SetZz1 == Binary("EQ", ColumnNode("", "zz"), NumberNode("1"))

UpdateStatements ==
    {UpdateStmt(n, <<SetId2>>, IdIs1) : n \in StatementTables}
    \cup {UpdateStmt(n, <<SetId2, SetZz1>>, NoWhere) : n \in StatementTables}
    \cup {UpdateStmt(n, <<SetId2>>, Binary("Or", IdIs1, EmailIsA)) :
             n \in StatementTables}

DeleteStatements ==
    {DeleteStmt(n, w) :
        n \in StatementTables,
        w \in {NoWhere, IdIs1, OrdersIdAbove1, Binary("Or", IdIs1, EmailIsA)}}

Statements ==
    SelectStatements \cup InsertStatements \cup UpdateStatements
    \cup DeleteStatements
    \cup {Statement("Create", <<"users">>, NoWhere, FALSE, <<>>, NoOrderItem,
                     NoWhere, <<>>, <<>>, <<>>)}

\* The catalog's objects as the call that ended with r leaves them.
ExecuteLeaves(r) ==
    /\ \A i \in DOMAIN r.heap : Len(r.heap[i].rows) <= MaxRows
    /\ heap' = r.heap
    /\ UNCHANGED <<table_vars, data, tables>>

\* execute(sql, db) for a statement that parses.
Execute(stmt) == ExecuteLeaves(ExecuteCall(stmt))

NextExecute ==
    \/ \E n \in TableNames, cols \in Schemas : CreateTable(n, cols)
    \/ \E s \in Statements : Execute(s)

\* An empty catalog; the variables of the single table are not used.
InitExecute == Init /\ columns = CHOOSE c \in Schemas : TRUE

SpecExecute == InitExecute /\ [][NextExecute]_vars

(***************************************************************************)
(*                         Properties of the Table                         *)
(***************************************************************************)

\* The {value: positions} map obtained by scanning rs for column c.
ScanIndex(rs, c) ==
    LET keys == {Key(rs[i][c]) : i \in 1..Len(rs)} IN
    [k \in keys |-> {i - 1 : i \in {j \in 1..Len(rs) : Key(rs[j][c]) = k}}]

\* C1: with the constraints declared while the table was empty, after any
\* sequence of insert, update and delete calls (raising ones included) every
\* index maps each value to exactly the positions of the rows that hold it
\* in the indexed column, and has no other keys.
IndexesMatchRows ==
    \A c \in DOMAIN indexes : indexes[c] = ScanIndex(rows, c)

\* C1 witness: two rows under two indexes, in a state where an update call
\* raises after it has already changed a row.
IndexesMatchRowsWitness ==
    /\ Len(rows) = 2
    /\ DOMAIN indexes = {"id", "email"}
    /\ \E a \in AssignmentLists, w \in Preds :
          /\ UpdateCall(a, w).outcome # "Ok"
          /\ UpdateCall(a, w).rows # rows

\* C2: in every reachable state, constraints declared on a table that holds
\* rows included, every unique column has an index and the index equals the
\* value-to-positions map of the current rows.
UniqueColumnsIndexed ==
    \A c \in unique_columns :
        c \in DOMAIN indexes /\ indexes[c] = ScanIndex(rows, c)

\* C3: with the constraints declared while the table was empty, no two rows
\* at different positions hold equal values (Python ==) in a primary-key or
\* unique column.
NoDuplicateKeys ==
    \A c \in unique_columns :
        \A i, j \in 1..Len(rows) :
            i # j => ~PyEq(rows[i][c], rows[j][c])

\* C3 witness: two rows stored under two unique columns, in a state where
\* some insert is refused for a duplicate.
NoDuplicateKeysWitness ==
    /\ Len(rows) = 2
    /\ unique_columns = {"id", "email"}
    /\ \E v \in InsertInputs : InsertCall(v).outcome = "Unique"

\* C8: every non-null value stored in a row has the declared type of its
\* column, a boolean never being stored in an integer column.
StoredValuesTyped ==
    \A i \in 1..Len(rows) :
        \A c \in ColNames :
            rows[i][c] # NONE => rows[i][c].t = columns[c].dtype

(************************* what a call is given ****************************)
ColIndex(c) == CHOOSE i \in 1..Len(column_order) : column_order[i] = c

\* The key column is left to the autoincrement counter.
AutoFilled(v, c) == autoincrement_pk /\ c = pk_column /\ v[c] = NONE

\* Null (or absent) where the column is declared nullable=false.
NullDefect(v, c) == v[c] = NONE /\ ~columns[c].nullable /\ ~AutoFilled(v, c)

\* A non-null value whose runtime type is not the declared type.
TypeDefect(v, c) == v[c] # NONE /\ v[c].t # columns[c].dtype

\* A string key given to an autoincrement table: max(counter, key) raises
\* Python's own TypeError before any column is validated.
CounterStepRaises(v) == autoincrement_pk /\ v[pk_column].t = "str"

\* The row an insert of v would store.
Built(v) ==
    [c \in ColNames |-> IF AutoFilled(v, c) THEN IntV(pk_counter.v + 1) ELSE v[c]]

RowValid(v) ==
    /\ ~CounterStepRaises(v)
    /\ \A c \in ColNames : ~NullDefect(v, c) /\ ~TypeDefect(v, c)

Duplicates(v) ==
    \E u \in unique_columns : \E i \in 1..Len(rows) : PyEq(rows[i][u], Built(v)[u])

\* C4: an insert of a valid row whose value in a primary-key or unique column
\* equals the value an existing row holds there raises a Unique/PK
\* violation, null counting as an ordinary key.
InsertDuplicateRaises ==
    \A v \in InsertInputs :
        RowValid(v) /\ Duplicates(v) => InsertCall(v).outcome = "Unique"

MatchingRows(w) == {i \in 1..Len(rows) : Matches(w, rows[i]) = "T"}

UniqueAssignments(a) == {k \in 1..Len(a) : a[k].col \in unique_columns}

\* C5: an update that assigns to a unique column of a matching row a value
\* held by a row at another position raises a Unique/PK violation; an update
\* that assigns to the matching rows the values they already hold in the
\* unique columns succeeds, counts those rows and keeps their index entries.
\* (Stated for assignments to declared columns and predicates that do not
\* raise.)
UpdateToTakenValueRaises ==
    \A a \in AssignmentLists, w \in Preds :
        LET r == UpdateCall(a, w)
            declared == \A k \in 1..Len(a) : a[k].col \in ColNames
            quiet == \A i \in 1..Len(rows) : Matches(w, rows[i]) # "raise"
            taken == \E k \in UniqueAssignments(a) : \E i \in MatchingRows(w) :
                        \E j \in 1..Len(rows) :
                            j # i /\ PyEq(rows[j][a[k].col], a[k].val)
            own == \A k \in UniqueAssignments(a) : \A i \in MatchingRows(w) :
                        PyEq(rows[i][a[k].col], a[k].val)
        IN declared /\ quiet =>
              /\ taken => r.outcome = "Unique"
              /\ own /\ ~taken =>
                    /\ r.outcome = "Ok"
                    /\ r.ret = Cardinality(MatchingRows(w))
                    /\ \A k \in UniqueAssignments(a) : \A i \in MatchingRows(w) :
                          (i - 1) \in HashLookup(r.indexes[a[k].col], a[k].val)

\* C6: an insert that raises leaves the row sequence and the contents of
\* every index exactly as they were before the call.
FailedInsertKeepsTable ==
    \A v \in InsertInputs :
        InsertCall(v).outcome # "Ok" =>
            InsertCall(v).rows = rows /\ InsertCall(v).indexes = indexes

\* C6 witness: a table with a row and an index, with an insert that is
\* refused for a duplicate key and one refused by validation.
FailedInsertKeepsTableWitness ==
    /\ rows # <<>>
    /\ DOMAIN indexes # {}
    /\ \E v \in InsertInputs : InsertCall(v).outcome = "Unique"
    /\ \E v \in InsertInputs : InsertCall(v).outcome = "TypeMismatch"

PositionsOf(d, rowid) == {k \in DOMAIN d : rowid \in d[k]}

\* C7: when update raises a uniqueness violation while processing a row,
\* none of the assignments has been applied to that row and no index entry
\* for its position has changed, in whichever order the assignments come;
\* the rows after it are untouched too.
FailedUpdateKeepsRow ==
    \A a \in AssignmentLists, w \in Preds :
        LET r == UpdateCall(a, w) IN
        r.outcome = "Unique" =>
            /\ r.rows[r.failRow + 1] = rows[r.failRow + 1]
            /\ \A i \in (r.failRow + 2)..Len(rows) : r.rows[i] = rows[i]
            /\ \A c \in DOMAIN indexes :
                  PositionsOf(r.indexes[c], r.failRow) = PositionsOf(indexes[c], r.failRow)

\* C7 witness: an update of two assignments raises on the second row, the
\* violation coming from the assignment listed last while the one listed
\* first would change that row.
FailedUpdateKeepsRowWitness ==
    \E a \in AssignmentLists, w \in Preds :
        LET r == UpdateCall(a, w) IN
        /\ Len(a) = 2
        /\ r.outcome = "Unique"
        /\ r.failRow = 1
        /\ a[1].col \in ColNames \ unique_columns
        /\ ~PyEq(a[1].val, rows[2][a[1].col])
        /\ a[2].col \in unique_columns

StoresNull(v, c) ==
    /\ InsertCall(v).outcome = "Ok"
    /\ InsertCall(v).rows[Len(rows) + 1][c] = NONE

\* C10 as stated: insert raises a not-null violation whenever a
\* nullable=false column is given null and autoincrement does not fill it;
\* a valid, non-duplicate row with null in a nullable column is stored with
\* null in that column.
NullDefectRaisesNotNull ==
    \A v \in InsertInputs :
        /\ (\E c \in ColNames : NullDefect(v, c)) => InsertCall(v).outcome = "NotNull"
        /\ \A c \in ColNames :
              v[c] = NONE /\ columns[c].nullable /\ RowValid(v) /\ ~Duplicates(v)
              => StoresNull(v, c)

\* C10 amended: insert raises a not-null violation when a nullable=false
\* column is given null, autoincrement does not fill it, no earlier column
\* in declared order holds a value of the wrong type and the key is not a
\* string on an autoincrement table; a valid, non-duplicate row with null in
\* a nullable column that autoincrement does not fill is stored with null in
\* that column.
FirstNullDefectRaisesNotNull ==
    \A v \in InsertInputs : \A c \in ColNames :
        /\ ( /\ NullDefect(v, c)
             /\ \A d \in ColNames : ColIndex(d) < ColIndex(c) => ~TypeDefect(v, d)
             /\ ~CounterStepRaises(v)
             => InsertCall(v).outcome = "NotNull" )
        /\ ( /\ v[c] = NONE /\ columns[c].nullable /\ ~AutoFilled(v, c)
             /\ RowValid(v) /\ ~Duplicates(v)
             => StoresNull(v, c) )

\* C10 witness: a table with a row where one insert is refused for a null in
\* a nullable=false column and another stores null in a nullable column.
FirstNullDefectWitness ==
    /\ rows # <<>>
    /\ \E v \in InsertInputs : InsertCall(v).outcome = "NotNull"
    /\ \E v \in InsertInputs : \E c \in ColNames :
          v[c] = NONE /\ columns[c].nullable /\ StoresNull(v, c)

(***************************************************************************)
(*                     Autoincrement counter and delete                    *)
(***************************************************************************)

\* C11: on an autoincrement table an accepted insert that supplies no
\* primary-key value stores counter+1 as the key and leaves the counter at
\* counter+1; an accepted insert that supplies an integer key k leaves the
\* counter at max(counter, k).
AutoincrementAssignsKeys ==
    autoincrement_pk =>
        \A v \in InsertInputs :
            LET r == InsertCall(v) IN
            r.outcome = "Ok" =>
                /\ v[pk_column] = NONE =>
                      /\ r.rows[Len(rows) + 1][pk_column] = IntV(pk_counter.v + 1)
                      /\ r.pk_counter.v = pk_counter.v + 1
                /\ v[pk_column].t = "int" =>
                      /\ r.rows[Len(rows) + 1][pk_column] = v[pk_column]
                      /\ r.pk_counter.v =
                            IF v[pk_column].v > pk_counter.v
                            THEN v[pk_column].v ELSE pk_counter.v

\* C11 witness: an autoincrement table whose counter is 2, on which an insert
\* with the smaller explicit key 1 and an insert without a key are accepted.
AutoincrementAssignsKeysWitness ==
    /\ autoincrement_pk
    /\ pk_counter.v = 2
    /\ rows # <<>>
    /\ \E v \in InsertInputs : v.id = IntV(1) /\ InsertCall(v).outcome = "Ok"
    /\ \E v \in InsertInputs : v.id = NONE /\ InsertCall(v).outcome = "Ok"

\* C12: no step of insert, update or delete with a predicate lowers
\* _pk_counter; a step that lowers it is a delete without a predicate, which
\* leaves it at 0.
CounterNeverDecreases ==
    [][ \/ pk_counter'.v >= pk_counter.v
        \/ Delete(NoPred) /\ pk_counter' = IntV(0) ]_vars

\* C12 witness: an autoincrement table whose counter is 2 accepts an insert
\* with the explicit key 1 and has a row a predicate delete would remove.
CounterNeverDecreasesWitness ==
    /\ autoincrement_pk
    /\ pk_counter.v = 2
    /\ \E v \in InsertInputs :
          v.id = IntV(1) /\ InsertCall(v).outcome = "Ok"
          /\ InsertCall(v).pk_counter = pk_counter
    /\ \E w \in Preds \ {NoPred} : DeleteCall(w).outcome = "Ok" /\ DeleteCall(w).ret > 0

\* C13: delete without a predicate returns the previous row count and leaves
\* no row, every index empty and the counter at 0; on an autoincrement table
\* a key-less insert accepted in the state it leaves is stored at position 0
\* with key 1.
DeleteAllResetsTable ==
    [][ Delete(NoPred) =>
          /\ DeleteCall(NoPred).outcome = "Ok"
          /\ DeleteCall(NoPred).ret = Len(rows)
          /\ rows' = <<>>
          /\ DOMAIN indexes' = DOMAIN indexes
          /\ \A c \in DOMAIN indexes' : indexes'[c] = EmptyIndex
          /\ pk_counter' = IntV(0)
          /\ ( autoincrement_pk =>
                 \A v \in InsertInputs :
                     v[pk_column] = NONE /\ InsertCall(v).outcome = "Ok" =>
                         /\ InsertCall(v).ret = 0
                         /\ InsertCall(v).rows[1][pk_column] = IntV(1) )' ]_vars

\* C13 witness: an autoincrement table with two rows, non-empty indexes and
\* the counter at 2, the state a delete without a predicate then clears.
DeleteAllResetsTableWitness ==
    /\ autoincrement_pk
    /\ Len(rows) = 2
    /\ pk_counter.v = 2
    /\ \E c \in DOMAIN indexes : indexes[c] # EmptyIndex
    /\ DeleteCall(NoPred).ret = 2
    /\ DeleteCall(NoPred).pk_counter = IntV(0)

\* The positions (1-based) of the rows a predicate delete keeps.
Kept(w) == {i \in 1..Len(rows) : Matches(w, rows[i]) = "F"}

\* C14: delete with a predicate that raises on no row removes exactly the
\* rows for which the predicate holds, keeps the others in their previous
\* relative order at positions 0..n-1, returns the number of rows removed and
\* leaves the counter unchanged, even when every row is removed.
PredicateDeleteKeepsOthers ==
    \A w \in Preds \ {NoPred} :
        (\A i \in 1..Len(rows) : Matches(w, rows[i]) # "raise") =>
            LET r == DeleteCall(w) IN
            /\ r.outcome = "Ok"
            /\ Len(r.rows) = Cardinality(Kept(w))
            /\ \A i \in Kept(w) :
                  r.rows[Cardinality({j \in Kept(w) : j <= i})] = rows[i]
            /\ r.ret = Len(rows) - Cardinality(Kept(w))
            /\ r.pk_counter = pk_counter

\* C14 witness: an autoincrement table with the counter advanced and two
\* rows, of which a predicate delete removes the first, moving the second to
\* position 0.
PredicateDeleteKeepsOthersWitness ==
    /\ autoincrement_pk
    /\ pk_counter.v >= 1
    /\ Len(rows) = 2
    /\ \E w \in Preds \ {NoPred} :
          /\ Kept(w) = {2}
          /\ DeleteCall(w).outcome = "Ok"
          /\ DeleteCall(w).rows = <<rows[2]>>

(***************************************************************************)
(*                        What an accepted insert stores                   *)
(***************************************************************************)

\* values_dict with columns left out: no column, or only one of the two.
PartialInserts ==
    {<<>>}
    \cup [id : {NONE, IntV(1), IntV(2)}]
    \cup [email : {NONE, StrV(1)}]

\* The autoincrement counter fills the key column of the row built from v.
KeyAssigned(v) == autoincrement_pk /\ RowGet(v, pk_column) = NONE

\* C15 as stated: an accepted insert appends one row at the end, holding
\* every declared column with null in every column absent from the input,
\* leaves the earlier rows unchanged and returns the previous row count.
InsertAppendsRowAbsentNull ==
    \A v \in InsertInputs \cup PartialInserts :
        LET r == InsertCall(v) IN
        r.outcome = "Ok" =>
            /\ Len(r.rows) = Len(rows) + 1
            /\ SubSeq(r.rows, 1, Len(rows)) = rows
            /\ DOMAIN r.rows[Len(rows) + 1] = ColNames
            /\ \A c \in ColNames \ DOMAIN v : r.rows[Len(rows) + 1][c] = NONE
            /\ r.ret = Len(rows)

\* C15 amended: an accepted insert appends one row at the end, holding every
\* declared column with null in every column absent from the input, except
\* that the key column of an autoincrement table holds counter+1 when the
\* key is absent or null; it leaves the earlier rows unchanged and returns
\* the previous row count.
InsertAppendsRow ==
    \A v \in InsertInputs \cup PartialInserts :
        LET r == InsertCall(v) IN
        r.outcome = "Ok" =>
            /\ Len(r.rows) = Len(rows) + 1
            /\ SubSeq(r.rows, 1, Len(rows)) = rows
            /\ DOMAIN r.rows[Len(rows) + 1] = ColNames
            /\ \A c \in ColNames \ DOMAIN v :
                  r.rows[Len(rows) + 1][c] =
                      IF KeyAssigned(v) /\ c = pk_column
                      THEN IntV(pk_counter.v + 1) ELSE NONE
            /\ r.ret = Len(rows)

\* C15 witness: a table that holds a row accepts an insert that names no
\* column at all, and one that leaves out a column stored as null.
InsertAppendsRowWitness ==
    /\ rows # <<>>
    /\ InsertCall(<<>>).outcome = "Ok"
    /\ \E v \in PartialInserts : \E c \in ColNames \ DOMAIN v :
          /\ InsertCall(v).outcome = "Ok"
          /\ InsertCall(v).rows[Len(rows) + 1][c] = NONE

(***************************************************************************)
(*                                 select                                  *)
(***************************************************************************)

\* The contents of the rows of a result.
Contents(result) == [k \in 1..Len(result) |-> result[k].row]

\* C16: a select leaves the table as it is and the rows it returns, with or
\* without projection, are not the stored rows: after the caller writes into
\* any returned row the stored rows are unchanged and the same select
\* returns what it returned before.
SelectReturnsCopies ==
    \A a \in SelectArgs :
        LET r == SelectCall(a) IN
        r.outcome = "Ok" =>
            \A i \in 1..Len(r.result) : \A c \in ColNames :
                LET after == ChangeReturned(rows, r.result, i, c, CallerValue) IN
                /\ after = rows
                /\ Contents(SelectFrom(after, a).result) = Contents(r.result)

\* C16 witness: a table with two rows of which a select without projection
\* and a select with a projection both return rows.
SelectReturnsCopiesWitness ==
    /\ Len(rows) = 2
    /\ \E a \in SelectArgs :
          ~a.proj.given /\ Len(SelectCall(a).result) = 2
    /\ \E a \in SelectArgs :
          a.proj = Proj(<<"id">>) /\ Len(SelectCall(a).result) = 2

\* The rows the predicate accepts, projected, in position order.
Projections(a) ==
    LET acc == {i \in 1..Len(rows) : Matches(a.where_fn, rows[i]) = "T"}
        nth(k) == CHOOSE i \in acc : Cardinality({j \in acc : j <= i}) = k
        wanted == {a.proj.cols[k] : k \in 1..Len(a.proj.cols)}
    IN [k \in 1..Cardinality(acc) |->
          IF ~a.proj.given \/ a.proj.cols = <<"*">>
          THEN rows[nth(k)]
          ELSE [c \in wanted \cap ColNames |-> rows[nth(k)][c]]]

\* Where the k-th projected row stands after a stable sort on column col.
Rank(p, k, col, desc) ==
    LET key(i) == RowGet(p[i], col).v IN
    1 + Cardinality({j \in 1..Len(p) :
            \/ (IF desc THEN key(j) > key(k) ELSE key(j) < key(k))
            \/ key(j) = key(k) /\ j < k})

Ordered(p, order_by) ==
    IF ~order_by.given THEN p
    ELSE [n \in 1..Len(p) |->
            p[CHOOSE k \in 1..Len(p) : Rank(p, k, order_by.col, order_by.desc) = n]]

\* The order column's values in the projected rows can be compared.
KeysComparable(p, col) ==
    \/ Len(p) < 2
    \/ \A i, j \in 1..Len(p) : Comparable(RowGet(p[i], col), RowGet(p[j], col))

\* C17: when the predicate raises on no row and the order column's values
\* in the projected rows can be compared, select returns the first N
\* entries of the stable sort, ascending or descending on that value, of the
\* projections of the rows the predicate accepts, taken in position order.
SelectFilterProjectOrderLimit ==
    \A a \in SelectArgs :
        LET p == Projections(a)
            sorted == Ordered(p, a.order_by)
            n == IF a.limit.given /\ a.limit.n < Len(p) THEN a.limit.n ELSE Len(p)
        IN /\ (\A i \in 1..Len(rows) : Matches(a.where_fn, rows[i]) # "raise")
           /\ (a.order_by.given => KeysComparable(p, a.order_by.col))
           => /\ SelectCall(a).outcome = "Ok"
              /\ Contents(SelectCall(a).result) = SubSeq(sorted, 1, n)

\* C17 witness: two rows with equal values in the order column and
\* different values elsewhere, returned whole by a descending select, and a
\* select that filters, projects, orders and limits at once.
SelectFilterProjectOrderLimitWitness ==
    /\ Len(rows) = 2
    /\ rows[1].email = rows[2].email
    /\ rows[1].email # NONE
    /\ rows[1].id # rows[2].id
    /\ \E a \in SelectArgs :
          /\ a.order_by = OrderBy("email", TRUE)
          /\ ~a.proj.given
          /\ Len(SelectCall(a).result) = 2
    /\ \E a \in SelectArgs :
          /\ a.where_fn # NoPred /\ a.proj = Proj(<<"id">>)
          /\ a.order_by = OrderBy("id", TRUE) /\ a.limit = Limit(1)
          /\ Len(SelectCall(a).result) = 1

(***************************************************************************)
(*                               HashIndex                                 *)
(***************************************************************************)

\* C18: after any sequence of add, remove and lookup calls no key of the
\* index maps to the empty set, and a remove of a position or a key the
\* index does not hold leaves the dict as it is.
NoEmptyPositionSets ==
    /\ \A k \in DOMAIN data : data[k] # {}
    /\ \A v \in IndexValues : \A r \in Rowids :
          r \notin HashLookup(data, v) => HashRemove(data, v, r) = data
    /\ \A v \in IndexValues : \A r \in Rowids :
          HashLookup(data, v) = {r} => Key(v) \notin DOMAIN HashRemove(data, v, r)

\* C18 witness: an index with a key that holds one position and a key that
\* holds two, and a value it has no key for.
NoEmptyPositionSetsWitness ==
    /\ \E k \in DOMAIN data : Cardinality(data[k]) = 1
    /\ \E k \in DOMAIN data : Cardinality(data[k]) = 2
    /\ \E v \in IndexValues : Key(v) \notin DOMAIN data

\* What is in the index: the set of <<key, position>> pairs.
Entries(d) == {e \in (DOMAIN d) \X Rowids : e[2] \in d[e[1]]}

\* C19: lookup returns the positions added and not removed for the value
\* (add puts one pair in, remove takes one pair out, nothing else changes
\* what a lookup returns; no pair to begin with), the empty set for a value
\* without a key; and whatever the caller adds to or discards from the set
\* it was handed, the dict of the index stays as it was.
LookupIsSnapshot ==
    /\ [](\A v \in IndexValues :
            /\ LookupCall(data, v).ret.elems =
                  {r \in Rowids : <<Key(v), r>> \in Entries(data)}
            /\ Key(v) \notin DOMAIN data => LookupCall(data, v).ret.elems = {}
            /\ LookupCall(data, v).data = data
            /\ \A op \in {"add", "discard"} : \A r \in Rowids :
                  ChangeLookedUp(LookupCall(data, v), op, r) = data)
    /\ [][ \A v \in IndexValues : \A r \in Rowids :
             /\ IndexAdd(v, r) =>
                   Entries(data') = Entries(data) \cup {<<Key(v), r>>}
             /\ IndexRemove(v, r) =>
                   Entries(data') = Entries(data) \ {<<Key(v), r>>} ]_vars

\* C19 witness: an index where a lookup returns two positions, another
\* returns one and a third returns the empty set.
LookupIsSnapshotWitness ==
    /\ \E v \in IndexValues : Cardinality(LookupCall(data, v).ret.elems) = 2
    /\ \E v \in IndexValues : Cardinality(LookupCall(data, v).ret.elems) = 1
    /\ \E v \in IndexValues : LookupCall(data, v).ret.elems = {}
    /\ data # EmptyIndex

(***************************************************************************)
(*                                 MiniDB                                  *)
(***************************************************************************)

\* C20: create_table with a name the catalog holds raises and leaves the
\* catalog and every Table object as they were; a name, once bound, is bound
\* to the same object in every later state; and a call made on what
\* get_table returns changes the object the catalog holds under that name.
CatalogKeepsTables ==
    /\ [](\A n \in DOMAIN tables : \A cols \in Schemas :
            /\ CreateTableCall(n, cols).outcome = "Exists"
            /\ CreateTableCall(n, cols).tables = tables
            /\ CreateTableCall(n, cols).heap = heap)
    /\ [][ \A n \in DOMAIN tables :
             /\ n \in DOMAIN tables'
             /\ tables'[n] = tables[n]
             /\ heap'[tables[n]].name = heap[tables[n]].name
             /\ heap'[tables[n]].columns = heap[tables[n]].columns ]_vars
    /\ [][ \A n \in DOMAIN tables : \A c \in DeclaredNames :
             GetTableAddUnique(n, c) =>
                 /\ GetTableCall(n).ref = tables[n]
                 /\ heap'[tables'[n]] = AddUniqueTo(heap[tables[n]], c) ]_vars

\* C20 witness: a catalog of two tables, one of them changed since it was
\* created, where create_table under its name with another column list is
\* refused.
CatalogKeepsTablesWitness ==
    /\ DOMAIN tables = TableNames
    /\ \E n \in DOMAIN tables : \E cols \in Schemas :
          /\ heap[tables[n]].unique_columns # {}
          /\ cols # heap[tables[n]].columns
          /\ CreateTableCall(n, cols).outcome = "Exists"

(*************************** define_primary_key ****************************)
DeclaredState == <<pk_column, unique_columns, indexes, autoincrement_pk>>

\* C25: define_primary_key raises when the column is not declared or when a
\* primary key is already defined, and then leaves pk_column, unique_columns,
\* indexes and the autoincrement flag as they were; so pk_column, once set,
\* never changes, and it is always a member of unique_columns.
DefinePrimaryKeyRaisesOnce ==
    /\ [](\A c \in DeclaredNames, a \in BOOLEAN :
            LET r == DefinePrimaryKeyCall(c, a) IN
            /\ (c \notin DOMAIN columns \/ pk_column # NoPk)
                   <=> r.outcome = "ValueError"
            /\ r.outcome = "ValueError" =>
                   <<r.pk_column, r.unique_columns, r.indexes,
                     r.autoincrement_pk>> = DeclaredState)
    /\ [](pk_column # NoPk => pk_column \in unique_columns)
    /\ [][pk_column # NoPk => pk_column' = pk_column]_vars

\* A key is defined and rows are stored: a second definition with another
\* declared column raises, and so does one that names an undeclared column.
DefinePrimaryKeyRaisesOnceWitness ==
    /\ pk_column = "id"
    /\ unique_columns = {"id"}
    /\ Len(rows) = 1
    /\ DefinePrimaryKeyCall("email", TRUE).outcome = "ValueError"
    /\ DefinePrimaryKeyCall("zz", FALSE).outcome = "ValueError"

(************************ not-null, counter, update ************************)
\* C27: in every state reached by insert, update and delete calls, every
\* stored row holds a non-null value in every column declared nullable=false.
NotNullColumnsHoldValues ==
    \A i \in 1..Len(rows) :
        \A c \in ColNames : ~columns[c].nullable => rows[i][c] # NONE

\* C28: an insert that raises a not-null violation, a type mismatch or a
\* Unique/PK violation on an autoincrement table leaves _pk_counter at the
\* value it had before the call.
FailedInsertKeepsCounter ==
    autoincrement_pk =>
        \A v \in InsertInputs :
            LET r == InsertCall(v) IN
            r.outcome \in {"NotNull", "TypeMismatch", "Unique"}
                => r.pk_counter = pk_counter

\* The integers stored in the primary-key column.
StoredKeys ==
    {rows[i][pk_column].v : i \in {j \in 1..Len(rows) : rows[j][pk_column].t = "int"}}

\* C29: on an autoincrement table _pk_counter is at least every integer
\* stored in the primary-key column, so an insert that supplies no key never
\* meets a Unique/PK violation on the key it is assigned.
CounterBoundsStoredKeys ==
    autoincrement_pk =>
        /\ \A k \in StoredKeys : pk_counter.v >= k
        /\ ~CheckUniqueViolation(indexes, pk_column, Incr(pk_counter), NoExclude)

UndeclaredAssignments(a) == {k \in 1..Len(a) : a[k].col \notin DOMAIN columns}

\* C30: an update whose assignments name an undeclared column raises and
\* leaves every row and every index unchanged, whatever other assignments
\* the call carries and in whatever order (stated for calls whose predicate
\* selects at least one row).
UndeclaredAssignmentKeepsTable ==
    \A a \in AssignmentLists, w \in Preds :
        UndeclaredAssignments(a) # {} /\ MatchingRows(w) # {} =>
            LET r == UpdateCall(a, w) IN
            /\ r.outcome # "Ok"
            /\ r.rows = rows
            /\ r.indexes = indexes

(***************************************************************************)
(*                        Properties of execute                            *)
(***************************************************************************)
DataStatements ==
    {s \in Statements : s.kind \in {"Select", "Insert", "Update", "Delete"}}

AllInCatalog(s) == Names(s.tables) \subseteq DOMAIN tables

\* The rows of the table the catalog holds under name n.
RowsOf(n) == heap[tables[n]].rows

\* C21: a SELECT, INSERT, UPDATE or DELETE statement naming a table the
\* catalog does not hold raises the not-found error (so it returns neither
\* rows nor a message) and leaves every table as it was.
MissingTableRaisesNotFound ==
    \A s \in DataStatements :
        ~AllInCatalog(s) =>
            /\ ExecuteCall(s).outcome = "NotFound"
            /\ ExecuteCall(s).heap = heap

\* C21 witness: the catalog holds users, with rows, and not orders; a join
\* of both, and an insert, an update and a delete on orders raise.
MissingTableRaisesNotFoundWitness ==
    /\ DOMAIN tables = {"users"}
    /\ Len(RowsOf("users")) = 2
    /\ \E s \in SelectStatements :
          s.tables = <<"users", "orders">> /\ ExecuteCall(s).outcome = "NotFound"
    /\ \A k \in {"Insert", "Update", "Delete"} :
          \E s \in DataStatements :
             /\ s.kind = k
             /\ s.tables = <<"orders">>
             /\ ExecuteCall(s).outcome = "NotFound"

\* The pairs (position in the left table, position in the right table) of
\* the rows with equal join columns whose left row passes the filter.
JoinPairs(e, filter_fn) ==
    LET l == e.args[1]
        r == e.args[2]
    IN {q \in (1..Len(RowsOf(l.table))) \X (1..Len(RowsOf(r.table))) :
          /\ PyEq(RowGet(RowsOf(l.table)[q[1]], l.this),
                  RowGet(RowsOf(r.table)[q[2]], r.this))
          /\ Matches(filter_fn, RowsOf(l.table)[q[1]]) = "T"}

Before(q, pairs) ==
    Cardinality({x \in pairs : x[1] < q[1] \/ (x[1] = q[1] /\ x[2] <= q[2])})

\* result holds one combined row per pair, left-row-major, each with every
\* column of both rows under (table, column).
IsJoinOf(result, e, pairs) ==
    LET l == e.args[1]
        r == e.args[2]
    IN /\ Len(result) = Cardinality(pairs)
       /\ \A q \in pairs :
             LET row == result[Before(q, pairs)].row IN
             /\ DOMAIN row = {l.table, r.table} \X ColNames
             /\ \A c \in ColNames :
                   /\ row[<<l.table, c>>] = RowsOf(l.table)[q[1]][c]
                   /\ row[<<r.table, c>>] = RowsOf(r.table)[q[2]][c]

TwoTableSelects ==
    {s \in SelectStatements : Len(s.tables) = 2 /\ s.tables[1] # s.tables[2]}

\* C22: a two-table SELECT whose WHERE is one equality between columns of
\* the two tables returns one combined row for every pair of a left and a
\* right row with equal join columns and no other row, left-row-major, each
\* with every column of both rows under table.column, and changes no table
\* (the left table is the one named on the left of the equality).
JoinReturnsEqualPairs ==
    \A s \in TwoTableSelects :
        AllInCatalog(s) /\ s.where \in Joins =>
            /\ ExecuteCall(s).outcome = "Rows"
            /\ IsJoinOf(ExecuteCall(s).result, s.where, JoinPairs(s.where, NoPred))
            /\ ExecuteCall(s).heap = heap

\* C22 witness: a left row equal to two right rows and another equal to
\* none, the right table being named first in FROM.
JoinReturnsEqualPairsWitness ==
    /\ DOMAIN tables = TableNames
    /\ \E s \in TwoTableSelects :
          /\ s.where = UsersIdIsOrdersId
          /\ s.tables = <<"orders", "users">>
          /\ Len(RowsOf("users")) = 2
          /\ JoinPairs(s.where, NoPred) = {<<1, 1>>, <<1, 2>>}
          /\ Len(ExecuteCall(s).result) = 2

JoinAndFilter(e) ==
    /\ e.kind = "And"
    /\ \/ e.args[1] \in Joins /\ e.args[2] \in Filters
       \/ e.args[1] \in Filters /\ e.args[2] \in Joins

JoinOf(e) == IF e.args[1] \in Joins THEN e.args[1] ELSE e.args[2]
FilterOf(e) == IF e.args[1] \in Joins THEN e.args[2] ELSE e.args[1]

\* C23: a two-table SELECT whose WHERE is the AND of a cross-table join
\* equality and a column-vs-literal filter returns the combined rows of the
\* join restricted to the left-table rows that satisfy the filter.
JoinWithFilterReturnsPairs ==
    \A s \in TwoTableSelects :
        AllInCatalog(s) /\ JoinAndFilter(s.where) =>
            /\ ExecuteCall(s).outcome = "Rows"
            /\ IsJoinOf(ExecuteCall(s).result, JoinOf(s.where),
                        JoinPairs(JoinOf(s.where),
                                  BuildPredicate(FilterOf(s.where), {}).value))

\* A WHERE clause that is absent or from which build_predicate returns.
Resolves(s) ==
    s.where # NoWhere => BuildPredicate(s.where, Names(s.tables)).outcome = "Ok"

PlainFilter(s) ==
    /\ s.where # NoWhere
    /\ BuildPredicate(s.where, Names(s.tables)).outcome = "Ok"
    /\ ~BuildPredicate(s.where, Names(s.tables)).tuple

\* C24: a SELECT over two tables with no WHERE or a WHERE that resolves to
\* a plain filter, or over more than two tables, returns the message "Only
\* single table or simple comma-join supported", neither raising nor
\* returning rows, and changes no table (the tables being in the catalog
\* and the WHERE clause one build_predicate returns from).
NoJoinReturnsMessage ==
    \A s \in SelectStatements :
        /\ AllInCatalog(s)
        /\ \/ Len(s.tables) = 2 /\ (s.where = NoWhere \/ PlainFilter(s))
           \/ Len(s.tables) > 2 /\ Resolves(s)
        => /\ ExecuteCall(s).outcome = "Message"
           /\ ExecuteCall(s).message = <<OnlySingleOrJoin, 0>>
           /\ ExecuteCall(s).heap = heap

\* C24 witness: both tables hold rows; a two-table select without WHERE, one
\* with a plain filter, and a three-table select with a join equality all
\* end with the message.
NoJoinReturnsMessageWitness ==
    /\ DOMAIN tables = TableNames
    /\ RowsOf("users") # <<>> /\ RowsOf("orders") # <<>>
    /\ \E s \in SelectStatements :
          /\ s.tables = <<"users", "orders">> /\ s.where = NoWhere
          /\ ExecuteCall(s).outcome = "Message"
    /\ \E s \in SelectStatements :
          /\ s.tables = <<"users", "orders">> /\ PlainFilter(s)
          /\ ExecuteCall(s).outcome = "Message"
    /\ \E s \in SelectStatements :
          /\ Len(s.tables) = 3 /\ s.where = UsersIdIsOrdersId
          /\ ExecuteCall(s).outcome = "Message"

\* The table maps execute can pass: none, or the tables of a FROM list, all
\* of them in the catalog.
TableMaps == SUBSET DOMAIN tables

IsComparison(e) ==
    /\ e.kind \in {"EQ", "GT", "LT"}
    /\ e.args[1].kind = "Column"
    /\ e.args[2].kind = "Literal"

IsJoinEquality(e, table_map) ==
    /\ e.kind = "EQ"
    /\ e.args[1].kind = "Column" /\ e.args[2].kind = "Column"
    /\ e.args[1].table # e.args[2].table
    /\ {e.args[1].table, e.args[2].table} \subseteq table_map

RECURSIVE Supported(_, _)
Supported(e, table_map) ==
    \/ IsComparison(e)
    \/ IsJoinEquality(e, table_map)
    \/ /\ e.kind = "And"
       /\ Supported(e.args[1], table_map)
       /\ Supported(e.args[2], table_map)

\* C26: build_predicate raises the unsupported-expression error, returning
\* neither a filter nor a join descriptor, for every expression that is not
\* an equality, greater-than or less-than between a column and a literal, a
\* cross-table join equality, or an AND of such expressions.
UnsupportedExpressionRaises ==
    \A e \in Expressions, table_map \in TableMaps :
        ~Supported(e, table_map) =>
            BuildPredicate(e, table_map).outcome = "NotImplementedError"

(***************************************************************************)
(*                      The keys of the stored rows                        *)
(***************************************************************************)

\* values_dict with a key that is not a declared column.
ExtraInserts ==
    [id : {NONE, IntV(1)}, email : {StrV(1)}, zz : {IntV(1)}]

HoldDeclaredColumns(rs) ==
    \A i \in 1..Len(rs) : DOMAIN rs[i] = DOMAIN columns

\* C31: in every state reached by insert, update and delete calls every
\* stored row's set of keys is exactly the declared columns; an insert whose
\* input leaves columns out or names an undeclared one, and an update that
\* assigns to an undeclared column, leave rows with exactly those keys too.
RowsHoldDeclaredColumns ==
    /\ HoldDeclaredColumns(rows)
    /\ \A v \in PartialInserts \cup ExtraInserts :
          HoldDeclaredColumns(InsertCall(v).rows)
    /\ \A a \in AssignmentLists, w \in Preds :
          UndeclaredAssignments(a) # {} =>
              HoldDeclaredColumns(UpdateCall(a, w).rows)

\* C31 witness: a table with two rows on which an insert naming an
\* undeclared column is accepted, an insert naming no column is accepted,
\* and an update assigning to an undeclared column reaches a row.
RowsHoldDeclaredColumnsWitness ==
    /\ Len(rows) = 2
    /\ \E v \in ExtraInserts : InsertCall(v).outcome = "Ok"
    /\ InsertCall(<<>>).outcome = "Ok"
    /\ \E a \in AssignmentLists, w \in Preds :
          /\ UndeclaredAssignments(a) # {}
          /\ UpdateCall(a, w).outcome = "KeyError"
          /\ UpdateCall(a, w).rows # rows

(***************************************************************************)
(*                     Ordering filters on stored rows                     *)
(***************************************************************************)

\* WHERE clauses comparing a column with a literal by > or <.
OrderingFilters ==
    { IdBelow2, OrdersIdAbove1,
      Binary("GT", ColumnNode("", "id"), NumberNode("1")),
      Binary("LT", ColumnNode("", "email"), StringNode("b")) }

\* The statements that use one of them on a table of the catalog.
OrderingStatements ==
    {SelectStmt(<<n>>, w, TRUE, <<>>, NoOrderItem, NoWhere) :
        n \in TableNames, w \in OrderingFilters}
    \cup {UpdateStmt(n, <<SetId2>>, w) : n \in TableNames, w \in OrderingFilters}
    \cup {DeleteStmt(n, w) : n \in TableNames, w \in OrderingFilters}

\* C32: the filter built from a > or < comparison of a column with a
\* literal yields a boolean on every row the tables hold, rows with null in
\* that column included, and no SELECT, UPDATE or DELETE that uses it raises
\* TypeError.
OrderingFilterReturnsBoolean ==
    /\ \A e \in OrderingFilters, n \in DOMAIN tables :
          \A i \in 1..Len(RowsOf(n)) :
              PredEval(BuildPredicate(e, {}).value, RowsOf(n)[i]) \in {"T", "F"}
    /\ \A s \in OrderingStatements :
          AllInCatalog(s) => ExecuteCall(s).outcome # "PyTypeError"

(***************************************************************************)
(*                 ORDER BY a column the select list leaves out            *)
(***************************************************************************)

\* SELECT cols FROM n ORDER BY c [DESC], with c not among cols.
OrderedByOmitted ==
    {SelectStmt(<<n>>, NoWhere, FALSE, cols, OrderItem(c, d), NoWhere) :
        n \in TableNames, cols \in {<<"id">>, <<"email">>},
        c \in ColNames \ {"id"}, d \in {"None", "True"}}
    \cup
    {SelectStmt(<<n>>, NoWhere, FALSE, <<"email">>, OrderItem("id", d), NoWhere) :
        n \in TableNames, d \in {"None", "True"}}

Omits(s) == s.order.col \notin {s.cols[k] : k \in 1..Len(s.cols)}

\* The values the stored rows hold in column c can be ordered.
StoredComparable(rs, c) ==
    \A i, j \in 1..Len(rs) : Comparable(RowGet(rs[i], c), RowGet(rs[j], c))

\* result holds the projections on cols of the rows rs, in an order where
\* the stored values of column c ascend (descend when desc).
IsOrderedProjection(result, rs, cols, c, desc) ==
    /\ Len(result) = Len(rs)
    /\ \E q \in Permutations(1..Len(rs)) :
          /\ \A k \in 1..Len(rs) :
                result[k].row =
                    [x \in {cols[m] : m \in 1..Len(cols)} \cap DOMAIN rs[q[k]] |->
                        rs[q[k]][x]]
          /\ \A k \in 1..(Len(rs) - 1) :
                IF desc THEN rs[q[k]][c].v >= rs[q[k + 1]][c].v
                ELSE rs[q[k]][c].v <= rs[q[k + 1]][c].v

\* C33: a single-table SELECT with an explicit column list and ORDER BY c,
\* c not in the list, returns the projected rows ordered by the value the
\* stored rows hold in c, ascending, or descending when DESC is given
\* (stated for tables whose stored values in c can be ordered).
OrderByOmittedColumnOrders ==
    \A s \in OrderedByOmitted :
        AllInCatalog(s) /\ Omits(s) /\ StoredComparable(RowsOf(s.tables[1]), s.order.col)
        => /\ ExecuteCall(s).outcome = "Rows"
           /\ IsOrderedProjection(ExecuteCall(s).result, RowsOf(s.tables[1]),
                                  s.cols, s.order.col, s.order.desc # "None")

(***************************************************************************)
(*                          AND of two filters                             *)
(***************************************************************************)
EmailIsB == Binary("EQ", ColumnNode("", "email"), StringNode("b"))

\* AND expressions over comparisons of a column with a literal, some nested
\* on the left, on the right and on both sides.
FilterConjunctions ==
    { Binary("And", IdIs1, EmailIsB),
      Binary("And", IdBelow2, EmailIsA),
      Binary("And", EmailIsA, IdBelow2),
      Binary("And", EmailIsB, IdBelow2),
      Binary("And", Binary("And", IdIs1, EmailIsA), IdBelow2),
      Binary("And", IdIs1, Binary("And", EmailIsA, IdBelow2)),
      Binary("And", Binary("And", IdBelow2, EmailIsA),
                    Binary("And", IdIsFloat1, EmailIsA)) }

IsFilter(p) == p.outcome = "Ok" /\ ~p.tuple

Holds(p, row) == PredEval(p.value, row) = "T"

\* C34: for an AND expression whose two sides both resolve to filters,
\* build_predicate returns one filter, which holds for a row exactly when
\* both sub-filters hold for it and returns a boolean whenever both of them
\* do; nested ANDs are such sides themselves.
AndFilterHoldsWhenBothHold ==
    \A e \in Conjunctions \cup FilterConjunctions, table_map \in TableMaps :
        LET p == BuildPredicate(e, table_map)
            p1 == BuildPredicate(e.args[1], table_map)
            p2 == BuildPredicate(e.args[2], table_map)
        IN IsFilter(p1) /\ IsFilter(p2) =>
              /\ IsFilter(p)
              /\ \A n \in DOMAIN tables : \A i \in 1..Len(RowsOf(n)) :
                    LET row == RowsOf(n)[i] IN
                    /\ Holds(p, row) <=> (Holds(p1, row) /\ Holds(p2, row))
                    /\ {PredEval(p1.value, row), PredEval(p2.value, row)}
                           \subseteq {"T", "F"}
                       => PredEval(p.value, row) \in {"T", "F"}

\* C34 witness: a table holds a row on which an AND of two filters holds, a
\* row on which only its first side holds, a row on which only its second
\* side holds, and a row on which an AND with a nested AND holds.
AndFilterHoldsWhenBothHoldWitness ==
    \E n \in DOMAIN tables :
        LET p(e) == BuildPredicate(e, {})
            some(e, a, b) ==
                \E i \in 1..Len(RowsOf(n)) :
                    /\ Holds(p(e.args[1]), RowsOf(n)[i]) = a
                    /\ Holds(p(e.args[2]), RowsOf(n)[i]) = b
                    /\ Holds(p(e), RowsOf(n)[i]) = (a /\ b)
        IN /\ some(Binary("And", IdIs1, EmailIsA), TRUE, TRUE)
           /\ some(Binary("And", IdIs1, EmailIsB), TRUE, FALSE)
           /\ some(Binary("And", IdIs1, EmailIsA), FALSE, TRUE)
           /\ some(Binary("And", Binary("And", IdIs1, EmailIsA), IdBelow2),
                   TRUE, TRUE)

====
